---- MODULE Spec2Model ----
(***************************************************************************)
(* Storage-placement and deal-lifecycle engine of the decentralized        *)
(* storage platform.                                                       *)
(*                                                                         *)
(*   Spec         contracts/StorageMarketplace.sol: the rental-deal ledger *)
(*   SpecFees     the same ledger with the owner's operations              *)
(*   SpecRep      the same ledger, one provider serving deal after deal    *)
(*   SpecService  services/StorageNetworkService.ts: chunk placement       *)
(*   SpecDevice   services/PhysicalStorageService.ts: one device's storage *)
(*                                                                         *)
(* Every external call is one action.  A call whose require fails reverts: *)
(* the contract state is left as it was and only the call record `last`    *)
(* (operation, caller, arguments, outcome) tells that it was attempted.    *)
(***************************************************************************)
EXTENDS Integers, Sequences, FiniteSets, TLC

(***************************************************************************)
(* Bounds of the model.                                                    *)
(***************************************************************************)
MaxDeals == 2
MaxCapacity == 1
MaxFileSize == 1
MaxTime == 1
MaxExcess == 1

(***************************************************************************)
(* Program constants of StorageMarketplace.                                *)
(***************************************************************************)
minDealDuration == 3600
maxDealDuration == 31536000
InitialPlatformFee == 250
MaxPlatformFee == 1000
FeeDenominator == 10000
InitialReputation == 100
ProofReward == 10
NoProofPenalty == 5

(***************************************************************************)
(* Callers.  address(0) is the value of an unset address field and is      *)
(* never msg.sender.                                                       *)
(***************************************************************************)
ZeroAddr == "0x0"
Owner == "owner"
Users == {"a1", "a2", "a3"}
Callers == Users \cup {Owner}
RegisteringUsers == {"a1"}
RentingUsers == {"a1", "a2"}

Capacities == 0..MaxCapacity
UnitPrices == {0, 1}
Prices == {0, 1, 2}
FileSizes == 0..MaxFileSize
Durations == {minDealDuration - 1, minDealDuration, maxDealDuration + 1}
ProofHashes == {"", "QmProof"}
Fees == {0, MaxPlatformFee, MaxPlatformFee + 1}
DealIds == 0..MaxDeals

(* deals one provider can see through before its reputation is used up *)
RepDeals == InitialReputation \div NoProofPenalty + 1
AllDealIds == 0..RepDeals

(***************************************************************************)
(* Block timestamps the environment may produce: the instants at which     *)
(* deals of the minimum duration start and end.                            *)
(***************************************************************************)
TimePoints == {k * minDealDuration : k \in 0..MaxTime}

(***************************************************************************)
(* services/StorageNetworkService.ts: the in-process provider table and    *)
(* the chunk upload.  Provider records are objects shared by reference     *)
(* between the table and the uploads that selected them: svcObjects is the *)
(* heap, svcProviders the Map in insertion order.                          *)
(***************************************************************************)
MaxStorage == 2
MaxFileBytes == 2
MaxObjects == 2

DefaultRedundancy == 3
SvcAddresses == {"p1", "p2"}
Redundancies == {1, 2, DefaultRedundancy}
UploadIds == {1, 2}
ChunkSizes == {1, 2}
Contents == {"f1", "f2"}
ChunkHashes == Contents \X (1..MaxFileBytes)
NoChunk == [size |-> 0, provider |-> ""]
SvcFileIds == {"file1", "file2"}
NoFile == [totalSize |-> 0, chunks |-> <<>>, isActive |-> FALSE]
IdleUpload ==
    [pc |-> "idle", sizes |-> <<>>, content |-> "", redundancy |-> 0,
     providers |-> <<>>, i |-> 0]

(***************************************************************************)
(* services/PhysicalStorageService.ts: the storage this device contributes *)
(* and the chunks stored on it.  Sizes are in bytes; contributeStorage is  *)
(* called with spaceInGB = bytes / 2^30.                                   *)
(***************************************************************************)
MaxQuota == 3
MaxChunkBytes == 2
MaxContributions == 1

StoreIds == {1, 2}
ChunkIds == {"c1", "c2"}
IdleStore == [pc |-> "idle", chunkId |-> "", size |-> 0, contribution |-> 0]

VARIABLES now, providers, deals, dealIdCounter, platformFee, paused,
          balance, last,
          svcObjects, svcProviders, svcChunks, svcUploads, svcFiles,
          storageQuota, usedStorage, devObjects, contributions, fileChunks, devStores,
          storageProviders, activeProviders, nextTokenId, netFileChunks,
          distributedFiles, storageContributed, lastRewardClaim, isStorageProvider,
          tokenBalance, netLast,
          splitCall, entered, callStack,
          tokenIdCounter, fileMetadata, ipfsToToken, tokenOwner, storagePricePerByte,
          nftBalance, nftLast,
          transferHistory, performanceHistory, currentStats,
          transfersRecorded, samplesTaken, statsLast,
          isRunning, channelClosed, announceTimers, discoveredPeers,
          discoveryNow, discoveryStopped, discoveryLast

marketVars == <<now, providers, deals, dealIdCounter, platformFee, paused, balance>>
ledgerVars == <<now, providers, deals, dealIdCounter, platformFee, paused, balance, last>>
svcVars == <<svcObjects, svcProviders, svcChunks, svcUploads, svcFiles>>
devVars == <<storageQuota, usedStorage, devObjects, contributions, fileChunks, devStores>>
netStateVars == <<storageProviders, activeProviders, nextTokenId, netFileChunks,
                  distributedFiles, storageContributed, lastRewardClaim,
                  isStorageProvider, tokenBalance>>
netVars == <<netStateVars, netLast>>
reentryVars == <<entered, callStack>>
nftStateVars == <<tokenIdCounter, fileMetadata, ipfsToToken, tokenOwner,
                  storagePricePerByte, nftBalance>>
nftVars == <<nftStateVars, nftLast>>
analyticsVars == <<transferHistory, performanceHistory, currentStats,
                   transfersRecorded, samplesTaken, statsLast>>
discoveryVars == <<isRunning, channelClosed, announceTimers, discoveredPeers,
                   discoveryNow, discoveryStopped, discoveryLast>>
vars == <<ledgerVars, svcVars, devVars, netVars, splitCall, reentryVars, nftVars,
          analyticsVars, discoveryVars>>

(***************************************************************************)
(* Zero values of the two structs (what an unset mapping slot reads as).   *)
(***************************************************************************)
ZeroProvider == [totalCapacity |-> 0, usedCapacity |-> 0, reputation |-> 0,
                 isActive |-> FALSE, pricePerByte |-> 0]

ZeroDeal == [provider |-> ZeroAddr, renter |-> ZeroAddr, fileSize |-> 0,
             pricePerByte |-> 0, duration |-> 0, startTime |-> 0, endTime |-> 0,
             isActive |-> FALSE, isCompleted |-> FALSE, proofHash |-> ""]

(***************************************************************************)
(* Deal status as the spec names it, read off isActive / isCompleted.      *)
(***************************************************************************)
Status(d) ==
    IF d.isActive THEN "Active"
    ELSE IF d.isCompleted THEN "Completed"
    ELSE IF d.renter # ZeroAddr THEN "Cancelled"
    ELSE "None"

(* floor(a * b / c), evaluated so that no intermediate exceeds a * b / c + b *)
MulDiv(a, b, c) == (a \div c) * b + ((a % c) * b) \div c

TotalPrice(fileSize, pricePerByte, duration) == fileSize * pricePerByte * duration

(* the fee taken as a share of 1000 instead of 10000 *)
PlatformFeeOf_PerMille(totalPrice, feeBps) == (totalPrice * feeBps) \div 1000

PlatformFeeOf(totalPrice, feeBps) == MulDiv(totalPrice, feeBps, FeeDenominator)

(***************************************************************************)
(* The record of the call made by the last step.                           *)
(***************************************************************************)
NoArgs == [dealId |-> -1, provider |-> ZeroAddr, amount |-> 0, duration |-> 0,
           value |-> 0, proofHash |-> ""]

CallRecord(op, sender, args, err, transfers) ==
    [op |-> op, sender |-> sender, args |-> args, ok |-> (err = ""),
     err |-> err, transfers |-> transfers]

Revert(op, sender, args, err) ==
    /\ last' = CallRecord(op, sender, args, err, <<>>)
    /\ UNCHANGED marketVars

InitLedger(ids) ==
    /\ now = 0
    /\ providers = [a \in Callers |-> ZeroProvider]
    /\ deals = [i \in ids |-> ZeroDeal]
    /\ dealIdCounter = 0
    /\ platformFee = InitialPlatformFee
    /\ paused = FALSE
    /\ balance = 0
    /\ last = CallRecord("constructor", Owner, NoArgs, "", <<>>)

InitNetworkService ==
    /\ svcObjects = <<>>
    /\ svcProviders = <<>>
    /\ svcChunks = [h \in ChunkHashes |-> NoChunk]
    /\ svcUploads = [u \in UploadIds |-> IdleUpload]
    /\ svcFiles = [f \in SvcFileIds |-> NoFile]

(***************************************************************************)
(* StorageNetwork.sol and the DestoreToken it reports contributions to.    *)
(* Storage amounts are counted in units of 1e9 bytes (GB), token amounts   *)
(* in units of 5e17 (half a DESTORE).                                      *)
(***************************************************************************)
MinStorageCapacity == 10
MIN_REDUNDANCY == 3
MIN_STORAGE_CONTRIBUTION == 10
MAX_STORAGE_CONTRIBUTION == 1000
SmallContributionLimit == 20
SmallContributionReward == 20

NetworkAddr == "StorageNetwork"
NetAddresses == {"n1", "n2", "n3"}
TokenHolders == NetAddresses \cup {NetworkAddr}
NetCapacities == {MinStorageCapacity - 1, MinStorageCapacity, SmallContributionLimit + 1,
                  MAX_STORAGE_CONTRIBUTION + 1}
FileIds == {"", "F1", "F2"}
NetFileSizes == {0, 3}
NetChunkHashes == {"h1", "h2"}
ChunkHashLists == {<<>>, <<"h1">>, <<"h1", "h2">>, <<"h1", "h1">>}

ZeroStorageProvider == [totalStorage |-> 0, usedStorage |-> 0, uploadCount |-> 0,
                        isActive |-> FALSE, nftTokenId |-> 0]
ZeroFileChunk == [provider |-> ZeroAddr, size |-> 0]
ZeroDistributedFile == [totalSize |-> 0, uploader |-> ZeroAddr, chunkHashes |-> <<>>,
                        chunkProviders |-> <<>>, isActive |-> FALSE]

NetCallRecord(op, sender, amount, fileId, err) ==
    [op |-> op, sender |-> sender, amount |-> amount, fileId |-> fileId,
     ok |-> (err = ""), err |-> err]

InitStorageNetwork ==
    /\ storageProviders = [a \in NetAddresses |-> ZeroStorageProvider]
    /\ activeProviders = <<>>
    /\ nextTokenId = 1
    /\ netFileChunks = [h \in NetChunkHashes |-> ZeroFileChunk]
    /\ distributedFiles = [f \in FileIds |-> ZeroDistributedFile]
    /\ storageContributed = [a \in TokenHolders |-> 0]
    /\ lastRewardClaim = [a \in TokenHolders |-> 0]
    /\ isStorageProvider = [a \in TokenHolders |-> FALSE]
    /\ tokenBalance = [a \in TokenHolders |-> 0]
    /\ netLast = NetCallRecord("constructor", Owner, 0, "", "")

InitDevice ==
    /\ storageQuota = 0
    /\ usedStorage = 0
    /\ devObjects = <<>>
    /\ contributions = 0
    /\ fileChunks = [c \in ChunkIds |-> 0]
    /\ devStores = [t \in StoreIds |-> IdleStore]

(***************************************************************************)
(* splitFileIntoChunks, one loop iteration at a time: the file size, the   *)
(* chunk size, the loop variable start and the sizes of the chunks pushed. *)
(***************************************************************************)
MaxSplitSize == 8
MaxSplitChunk == 4

IdleSplit == [pc |-> "idle", fileSize |-> 0, chunkSize |-> 0, start |-> 0, chunks |-> <<>>]

InitSplit == splitCall = IdleSplit

(***************************************************************************)
(* StorageMarketplace.sol while a value transfer is in flight: entered is  *)
(* the ReentrancyGuard status, callStack the calls suspended in a          *)
(* transfer, innermost first.                                              *)
(***************************************************************************)
InitReentry ==
    /\ entered = FALSE
    /\ callStack = <<>>

(***************************************************************************)
(* StorageNFT.sol.  Amounts of ether are counted in units of 0.001 ether,  *)
(* the initial storagePricePerByte.                                        *)
(***************************************************************************)
MaxTokens == 2

InitialStoragePrice == 1

TokenIds == 0..(MaxTokens - 1)
NftSenders == {"a1", "a2"}
FileNames == {"", "report.pdf"}
MimeTypes == {"application/pdf"}
IpfsHashes == {"QmA", "QmB"}
NftSizes == {0, 2}
RedundancyFactors == {0, 3}
StoragePrices == {0, 2}

ZeroFileMetadata ==
    [name |-> "", size |-> 0, mimeType |-> "", ipfsHash |-> "", redundancyFactor |-> 0,
     storagePrice |-> 0, uploader |-> ZeroAddr, isActive |-> FALSE]

NftNoArgs ==
    [name |-> "", size |-> 0, mimeType |-> "", ipfsHash |-> "", redundancyFactor |-> 0,
     value |-> 0, tokenId |-> -1]

NftCallRecord(op, sender, args, err, transfers) ==
    [op |-> op, sender |-> sender, args |-> args, ok |-> (err = ""),
     err |-> err, transfers |-> transfers]

InitStorageNFT ==
    /\ tokenIdCounter = 0
    /\ fileMetadata = [t \in TokenIds |-> ZeroFileMetadata]
    /\ ipfsToToken = [h \in IpfsHashes |-> 0]
    /\ tokenOwner = [t \in TokenIds |-> ZeroAddr]
    /\ storagePricePerByte = InitialStoragePrice
    /\ nftBalance = 0
    /\ nftLast = NftCallRecord("constructor", Owner, NftNoArgs, "", <<>>)

(***************************************************************************)
(* NetworkAnalyticsService: state after the constructor's initializeStats. *)
(* Speeds are counted in tenths of a MB/s and the success rate in tenths   *)
(* of a percent (the service rounds both to one decimal); latency in ms.   *)
(***************************************************************************)
InitialPerformance ==
    [avgUploadSpeed |-> 0, avgDownloadSpeed |-> 0, networkLatency |-> 0,
     successRate |-> 1000, totalTransfers |-> 0, failedTransfers |-> 0]

EmptySnapshot ==
    [totalDevices |-> 0, onlineDevices |-> 0, totalStorage |-> 0,
     usedStorage |-> 0, onChainDevices |-> 0]

InitAnalytics ==
    /\ transferHistory = <<>>
    /\ performanceHistory = <<>>
    /\ currentStats = [networkHealth |-> 0, performance |-> InitialPerformance,
                       totalStorage |-> 0, usedStorage |-> 0,
                       onlineDevices |-> 0, onChainDevices |-> 0]
    /\ transfersRecorded = 0
    /\ samplesTaken = 0
    /\ statsLast = [op |-> "constructor", stats |-> EmptySnapshot]

(***************************************************************************)
(* NetworkDiscoveryServer: state after the constructor.  Date.now() is     *)
(* counted in units of 10 seconds, the period of the announcement timer.   *)
(***************************************************************************)
OwnDeviceId == "self"
PeerDeviceIds == {"d1"}
UnknownPeer == [known |-> FALSE, lastSeen |-> 0, isOnline |-> FALSE]
DiscoveryRecord(op, deviceId, announced, cleaned, threw) ==
    [op |-> op, deviceId |-> deviceId, announced |-> announced, cleaned |-> cleaned,
     threw |-> threw]

InitDiscovery ==
    /\ isRunning = FALSE
    /\ channelClosed = FALSE
    /\ announceTimers = 0
    /\ discoveredPeers = [d \in PeerDeviceIds \cup {OwnDeviceId} |-> UnknownPeer]
    /\ discoveryNow = 0
    /\ discoveryStopped = FALSE
    /\ discoveryLast = DiscoveryRecord("constructor", "", FALSE, FALSE, FALSE)

Init ==
    /\ InitLedger(DealIds) /\ InitNetworkService /\ InitDevice /\ InitStorageNetwork
    /\ InitSplit /\ InitReentry /\ InitStorageNFT /\ InitAnalytics
    /\ InitDiscovery

(* a clock that may also be set back *)
Tick_Backwards(t) ==
    /\ t # now
    /\ now' = t
    /\ last' = CallRecord("tick", ZeroAddr, NoArgs, "", <<>>)
    /\ UNCHANGED <<providers, deals, dealIdCounter, platformFee, paused, balance>>

(***************************************************************************)
(* block.timestamp moves forward between transactions.                     *)
(***************************************************************************)
Tick(t) ==
    /\ t > now
    /\ now' = t
    /\ last' = CallRecord("tick", ZeroAddr, NoArgs, "", <<>>)
    /\ UNCHANGED <<providers, deals, dealIdCounter, platformFee, paused, balance>>

(* registerProvider without the require on the price *)
RegisterProviderError_NoPriceCheck(sender, capacity, pricePerByte) ==
    IF ~(capacity > 0) THEN "Capacity must be greater than 0"
    ELSE IF providers[sender].isActive THEN "Provider already registered"
    ELSE ""

RegisterProviderError(sender, capacity, pricePerByte) ==
    IF ~(capacity > 0) THEN "Capacity must be greater than 0"
    ELSE IF ~(pricePerByte > 0) THEN "Price must be greater than 0"
    ELSE IF providers[sender].isActive THEN "Provider already registered"
    ELSE ""

RegisterProvider(sender, capacity, pricePerByte) ==
    LET err == RegisterProviderError(sender, capacity, pricePerByte)
        args == [NoArgs EXCEPT !.amount = capacity, !.value = pricePerByte]
    IN  IF err # "" THEN Revert("registerProvider", sender, args, err)
        ELSE /\ providers' = [providers EXCEPT ![sender] =
                    [totalCapacity |-> capacity, usedCapacity |-> 0,
                     reputation |-> InitialReputation, isActive |-> TRUE,
                     pricePerByte |-> pricePerByte]]
             /\ last' = CallRecord("registerProvider", sender, args, "", <<>>)
             /\ UNCHANGED <<now, deals, dealIdCounter, platformFee, paused, balance>>

(* createDeal without the require on msg.value *)
CreateDealError_NoPaymentCheck(sender, provider, fileSize, duration, value) ==
    IF paused THEN "EnforcedPause"
    ELSE IF ~providers[provider].isActive THEN "Provider not active"
    ELSE IF ~(fileSize > 0) THEN "File size must be greater than 0"
    ELSE IF ~(duration >= minDealDuration) THEN "Duration too short"
    ELSE IF ~(duration <= maxDealDuration) THEN "Duration too long"
    ELSE IF ~(providers[provider].usedCapacity + fileSize <= providers[provider].totalCapacity)
        THEN "Insufficient capacity"
    ELSE ""

(* createDeal without the require on the provider's free capacity *)
CreateDealError_NoCapacityCheck(sender, provider, fileSize, duration, value) ==
    IF paused THEN "EnforcedPause"
    ELSE IF ~providers[provider].isActive THEN "Provider not active"
    ELSE IF ~(fileSize > 0) THEN "File size must be greater than 0"
    ELSE IF ~(duration >= minDealDuration) THEN "Duration too short"
    ELSE IF ~(duration <= maxDealDuration) THEN "Duration too long"
    ELSE IF ~(value >= TotalPrice(fileSize, providers[provider].pricePerByte, duration))
        THEN "Insufficient payment"
    ELSE ""

CreateDealError(sender, provider, fileSize, duration, value) ==
    IF paused THEN "EnforcedPause"
    ELSE IF ~providers[provider].isActive THEN "Provider not active"
    ELSE IF ~(fileSize > 0) THEN "File size must be greater than 0"
    ELSE IF ~(duration >= minDealDuration) THEN "Duration too short"
    ELSE IF ~(duration <= maxDealDuration) THEN "Duration too long"
    ELSE IF ~(providers[provider].usedCapacity + fileSize <= providers[provider].totalCapacity)
        THEN "Insufficient capacity"
    ELSE IF ~(value >= TotalPrice(fileSize, providers[provider].pricePerByte, duration))
        THEN "Insufficient payment"
    ELSE ""

CreateDeal(sender, provider, fileSize, duration, value) ==
    LET err == CreateDealError(sender, provider, fileSize, duration, value)
        args == [NoArgs EXCEPT !.provider = provider, !.amount = fileSize,
                               !.duration = duration, !.value = value]
        dealId == dealIdCounter
        totalPrice == TotalPrice(fileSize, providers[provider].pricePerByte, duration)
        fee == PlatformFeeOf(totalPrice, platformFee)
        providerPayment == totalPrice - fee
        refund == value - totalPrice
        transfers == <<[to |-> provider, amount |-> providerPayment]>> \o
                     (IF value > totalPrice
                      THEN <<[to |-> sender, amount |-> refund]>> ELSE <<>>)
    IN  IF err # "" THEN Revert("createDeal", sender, args, err)
        ELSE /\ dealIdCounter' = dealIdCounter + 1
             /\ deals' = [deals EXCEPT ![dealId] =
                    [provider |-> provider, renter |-> sender, fileSize |-> fileSize,
                     pricePerByte |-> providers[provider].pricePerByte,
                     duration |-> duration, startTime |-> now,
                     endTime |-> now + duration, isActive |-> TRUE,
                     isCompleted |-> FALSE, proofHash |-> ""]]
             /\ providers' = [providers EXCEPT ![provider].usedCapacity = @ + fileSize]
             /\ balance' = balance + value - providerPayment
                           - (IF value > totalPrice THEN refund ELSE 0)
             /\ last' = CallRecord("createDeal", sender,
                                   [args EXCEPT !.dealId = dealId], "", transfers)
             /\ UNCHANGED <<now, platformFee, paused>>

(* submitProof accepting a proof at the very instant the deal ends *)
SubmitProofError_AtEnd(sender, dealId) ==
    IF ~(deals[dealId].provider = sender) THEN "Only provider can submit proof"
    ELSE IF ~deals[dealId].isActive THEN "Deal not active"
    ELSE IF ~(deals[dealId].endTime >= now) THEN "Deal expired"
    ELSE ""

SubmitProofError(sender, dealId) ==
    IF ~(deals[dealId].provider = sender) THEN "Only provider can submit proof"
    ELSE IF ~deals[dealId].isActive THEN "Deal not active"
    ELSE IF ~(deals[dealId].endTime > now) THEN "Deal expired"
    ELSE ""

(* submitProof rewarding the provider each time a proof is recorded *)
SubmitProof_Rewarding(sender, dealId, proofHash) ==
    LET err == SubmitProofError(sender, dealId)
        args == [NoArgs EXCEPT !.dealId = dealId, !.proofHash = proofHash]
    IN  IF err # "" THEN Revert("submitProof", sender, args, err)
        ELSE /\ deals' = [deals EXCEPT ![dealId].proofHash = proofHash]
             /\ providers' = [providers EXCEPT ![sender].reputation = @ + ProofReward]
             /\ last' = CallRecord("submitProof", sender, args, "", <<>>)
             /\ UNCHANGED <<now, dealIdCounter, platformFee, paused, balance>>

SubmitProof(sender, dealId, proofHash) ==
    LET err == SubmitProofError(sender, dealId)
        args == [NoArgs EXCEPT !.dealId = dealId, !.proofHash = proofHash]
    IN  IF err # "" THEN Revert("submitProof", sender, args, err)
        ELSE /\ deals' = [deals EXCEPT ![dealId].proofHash = proofHash]
             /\ last' = CallRecord("submitProof", sender, args, "", <<>>)
             /\ UNCHANGED <<now, providers, dealIdCounter, platformFee, paused, balance>>

(* completeDeal without the require on deal.isActive *)
CompleteDealError_NoActiveCheck(sender, dealId) ==
    LET deal == deals[dealId] IN
    IF ~(deal.renter = sender \/ deal.provider = sender) THEN "Not authorized"
    ELSE IF ~(deal.endTime <= now) THEN "Deal not expired yet"
    ELSE IF providers[deal.provider].usedCapacity < deal.fileSize THEN "Panic(0x11)"
    ELSE IF deal.proofHash = "" /\ providers[deal.provider].reputation < NoProofPenalty
        THEN "Panic(0x11)"
    ELSE ""

(* completeDeal without the require on msg.sender *)
CompleteDealError_NoAuthorization(sender, dealId) ==
    LET deal == deals[dealId] IN
    IF ~deal.isActive THEN "Deal not active"
    ELSE IF ~(deal.endTime <= now) THEN "Deal not expired yet"
    ELSE IF providers[deal.provider].usedCapacity < deal.fileSize THEN "Panic(0x11)"
    ELSE IF deal.proofHash = "" /\ providers[deal.provider].reputation < NoProofPenalty
        THEN "Panic(0x11)"
    ELSE ""

(***************************************************************************)
(* completeDeal.  Solidity 0.8 arithmetic is checked: a subtraction whose  *)
(* result would be negative reverts the whole call (Panic 0x11).           *)
(***************************************************************************)
CompleteDealError(sender, dealId) ==
    LET deal == deals[dealId] IN
    IF ~(deal.renter = sender \/ deal.provider = sender) THEN "Not authorized"
    ELSE IF ~deal.isActive THEN "Deal not active"
    ELSE IF ~(deal.endTime <= now) THEN "Deal not expired yet"
    ELSE IF providers[deal.provider].usedCapacity < deal.fileSize THEN "Panic(0x11)"
    ELSE IF deal.proofHash = "" /\ providers[deal.provider].reputation < NoProofPenalty
        THEN "Panic(0x11)"
    ELSE ""

(* completeDeal leaving the provider's capacity reserved *)
CompleteDeal_NoRelease(sender, dealId) ==
    LET err == CompleteDealError(sender, dealId)
        args == [NoArgs EXCEPT !.dealId = dealId]
        deal == deals[dealId]
    IN  IF err # "" THEN Revert("completeDeal", sender, args, err)
        ELSE /\ deals' = [deals EXCEPT ![dealId].isActive = FALSE,
                                       ![dealId].isCompleted = TRUE]
             /\ providers' = [providers EXCEPT
                    ![deal.provider].reputation =
                        IF deal.proofHash # "" THEN @ + ProofReward
                        ELSE @ - NoProofPenalty]
             /\ last' = CallRecord("completeDeal", sender, args, "", <<>>)
             /\ UNCHANGED <<now, dealIdCounter, platformFee, paused, balance>>

CompleteDeal(sender, dealId) ==
    LET err == CompleteDealError(sender, dealId)
        args == [NoArgs EXCEPT !.dealId = dealId]
        deal == deals[dealId]
    IN  IF err # "" THEN Revert("completeDeal", sender, args, err)
        ELSE /\ deals' = [deals EXCEPT ![dealId].isActive = FALSE,
                                       ![dealId].isCompleted = TRUE]
             /\ providers' = [providers EXCEPT
                    ![deal.provider].usedCapacity = @ - deal.fileSize,
                    ![deal.provider].reputation =
                        IF deal.proofHash # "" THEN @ + ProofReward
                        ELSE @ - NoProofPenalty]
             /\ last' = CallRecord("completeDeal", sender, args, "", <<>>)
             /\ UNCHANGED <<now, dealIdCounter, platformFee, paused, balance>>

(* cancelDeal without the require on the deal's start time *)
CancelDealError_NoStartCheck(sender, dealId) ==
    LET deal == deals[dealId]
        refundAmount == TotalPrice(deal.fileSize, deal.pricePerByte, deal.duration)
    IN
    IF ~(deal.renter = sender) THEN "Only renter can cancel"
    ELSE IF ~deal.isActive THEN "Deal not active"
    ELSE IF providers[deal.provider].usedCapacity < deal.fileSize THEN "Panic(0x11)"
    ELSE IF balance < refundAmount THEN "TransferFailed"
    ELSE ""

(* cancelDeal accepting a cancellation at the very instant the deal starts *)
CancelDealError_AtStart(sender, dealId) ==
    LET deal == deals[dealId]
        refundAmount == TotalPrice(deal.fileSize, deal.pricePerByte, deal.duration)
    IN
    IF ~(deal.renter = sender) THEN "Only renter can cancel"
    ELSE IF ~deal.isActive THEN "Deal not active"
    ELSE IF ~(deal.startTime >= now) THEN "Deal already started"
    ELSE IF providers[deal.provider].usedCapacity < deal.fileSize THEN "Panic(0x11)"
    ELSE IF balance < refundAmount THEN "TransferFailed"
    ELSE ""

(***************************************************************************)
(* cancelDeal.  transfer() reverts the call when the contract holds less   *)
(* than the amount to send.                                                *)
(***************************************************************************)
CancelDealError(sender, dealId) ==
    LET deal == deals[dealId]
        refundAmount == TotalPrice(deal.fileSize, deal.pricePerByte, deal.duration)
    IN
    IF ~(deal.renter = sender) THEN "Only renter can cancel"
    ELSE IF ~deal.isActive THEN "Deal not active"
    ELSE IF ~(deal.startTime > now) THEN "Deal already started"
    ELSE IF providers[deal.provider].usedCapacity < deal.fileSize THEN "Panic(0x11)"
    ELSE IF balance < refundAmount THEN "TransferFailed"
    ELSE ""

CancelDeal(sender, dealId) ==
    LET err == CancelDealError(sender, dealId)
        args == [NoArgs EXCEPT !.dealId = dealId]
        deal == deals[dealId]
        refundAmount == TotalPrice(deal.fileSize, deal.pricePerByte, deal.duration)
    IN  IF err # "" THEN Revert("cancelDeal", sender, args, err)
        ELSE /\ deals' = [deals EXCEPT ![dealId].isActive = FALSE]
             /\ providers' = [providers EXCEPT
                    ![deal.provider].usedCapacity = @ - deal.fileSize]
             /\ balance' = balance - refundAmount
             /\ last' = CallRecord("cancelDeal", sender, args, "",
                                   <<[to |-> deal.renter, amount |-> refundAmount]>>)
             /\ UNCHANGED <<now, dealIdCounter, platformFee, paused>>

UpdateProviderCapacityError(sender, newCapacity) ==
    IF ~providers[sender].isActive THEN "Provider not registered"
    ELSE IF ~(newCapacity >= providers[sender].usedCapacity) THEN "New capacity too small"
    ELSE ""

UpdateProviderCapacity(sender, newCapacity) ==
    LET err == UpdateProviderCapacityError(sender, newCapacity)
        args == [NoArgs EXCEPT !.amount = newCapacity]
    IN  IF err # "" THEN Revert("updateProviderCapacity", sender, args, err)
        ELSE /\ providers' = [providers EXCEPT ![sender].totalCapacity = newCapacity]
             /\ last' = CallRecord("updateProviderCapacity", sender, args, "", <<>>)
             /\ UNCHANGED <<now, deals, dealIdCounter, platformFee, paused, balance>>

UpdateProviderPriceError(sender, newPrice) ==
    IF ~providers[sender].isActive THEN "Provider not registered"
    ELSE IF ~(newPrice > 0) THEN "Price must be greater than 0"
    ELSE ""

UpdateProviderPrice(sender, newPrice) ==
    LET err == UpdateProviderPriceError(sender, newPrice)
        args == [NoArgs EXCEPT !.value = newPrice]
    IN  IF err # "" THEN Revert("updateProviderPrice", sender, args, err)
        ELSE /\ providers' = [providers EXCEPT ![sender].pricePerByte = newPrice]
             /\ last' = CallRecord("updateProviderPrice", sender, args, "", <<>>)
             /\ UNCHANGED <<now, deals, dealIdCounter, platformFee, paused, balance>>

(* deactivateProvider without the require on usedCapacity *)
DeactivateProviderError_NoUsageCheck(sender) ==
    IF ~providers[sender].isActive THEN "Provider not active" ELSE ""

DeactivateProviderError(sender) ==
    IF ~providers[sender].isActive THEN "Provider not active"
    ELSE IF ~(providers[sender].usedCapacity = 0) THEN "Cannot deactivate with active deals"
    ELSE ""

DeactivateProvider(sender) ==
    LET err == DeactivateProviderError(sender)
    IN  IF err # "" THEN Revert("deactivateProvider", sender, NoArgs, err)
        ELSE /\ providers' = [providers EXCEPT ![sender].isActive = FALSE]
             /\ last' = CallRecord("deactivateProvider", sender, NoArgs, "", <<>>)
             /\ UNCHANGED <<now, deals, dealIdCounter, platformFee, paused, balance>>

UpdatePlatformFeeError(sender, newFee) ==
    IF sender # Owner THEN "OwnableUnauthorizedAccount"
    ELSE IF ~(newFee <= MaxPlatformFee) THEN "Fee too high"
    ELSE ""

UpdatePlatformFee(sender, newFee) ==
    LET err == UpdatePlatformFeeError(sender, newFee)
        args == [NoArgs EXCEPT !.amount = newFee]
    IN  IF err # "" THEN Revert("updatePlatformFee", sender, args, err)
        ELSE /\ platformFee' = newFee
             /\ last' = CallRecord("updatePlatformFee", sender, args, "", <<>>)
             /\ UNCHANGED <<now, providers, deals, dealIdCounter, paused, balance>>

WithdrawFeesError(sender) ==
    IF sender # Owner THEN "OwnableUnauthorizedAccount"
    ELSE IF ~(balance > 0) THEN "No fees to withdraw"
    ELSE ""

WithdrawFees(sender) ==
    LET err == WithdrawFeesError(sender)
    IN  IF err # "" THEN Revert("withdrawFees", sender, NoArgs, err)
        ELSE /\ balance' = 0
             /\ last' = CallRecord("withdrawFees", sender, NoArgs, "",
                                   <<[to |-> Owner, amount |-> balance]>>)
             /\ UNCHANGED <<now, providers, deals, dealIdCounter, platformFee, paused>>

PauseError(sender) ==
    IF sender # Owner THEN "OwnableUnauthorizedAccount"
    ELSE IF paused THEN "EnforcedPause"
    ELSE ""

Pause(sender) ==
    LET err == PauseError(sender)
    IN  IF err # "" THEN Revert("pause", sender, NoArgs, err)
        ELSE /\ paused' = TRUE
             /\ last' = CallRecord("pause", sender, NoArgs, "", <<>>)
             /\ UNCHANGED <<now, providers, deals, dealIdCounter, platformFee, balance>>

UnpauseError(sender) ==
    IF sender # Owner THEN "OwnableUnauthorizedAccount"
    ELSE IF ~paused THEN "ExpectedPause"
    ELSE ""

Unpause(sender) ==
    LET err == UnpauseError(sender)
    IN  IF err # "" THEN Revert("unpause", sender, NoArgs, err)
        ELSE /\ paused' = FALSE
             /\ last' = CallRecord("unpause", sender, NoArgs, "", <<>>)
             /\ UNCHANGED <<now, providers, deals, dealIdCounter, platformFee, balance>>

(***************************************************************************)
(* Payments offered with createDeal: one wei short of the price, the exact *)
(* price, and the price plus an excess.                                    *)
(***************************************************************************)
PaymentsFor(provider, fileSize, duration) ==
    LET totalPrice == TotalPrice(fileSize, providers[provider].pricePerByte, duration)
    IN  {v \in {totalPrice - 1} \cup {totalPrice + e : e \in 0..MaxExcess} : v >= 0}

Register(P) ==
    \E s \in RegisteringUsers, c \in Capacities, p \in P : RegisterProvider(s, c, p)

(***************************************************************************)
(* Offers made to createDeal: every size at the minimum duration with the  *)
(* three payments, and the two durations out of range.                     *)
(***************************************************************************)
OfferDeal ==
    /\ dealIdCounter < MaxDeals
    /\ \E s \in RentingUsers, p \in RegisteringUsers, f \in FileSizes, d \in Durations :
          \E v \in PaymentsFor(p, f, d) :
             /\ d # minDealDuration =>
                   f = 1 /\ v = TotalPrice(f, providers[p].pricePerByte, d)
             /\ CreateDeal(s, p, f, d, v)

(***************************************************************************)
(* A reverted call leaves the contract exactly as it was, so every         *)
(* behaviour continues from the state a call succeeded in; the failed      *)
(* attempts branch off it and are explored as observations of that state.  *)
(***************************************************************************)
LedgerStep(A) == last.ok /\ A /\ UNCHANGED <<discoveryVars, analyticsVars, nftVars, svcVars, devVars, netVars, splitCall, reentryVars>>

Next ==
    \/ LedgerStep(\E t \in TimePoints : Tick(t))
    \/ LedgerStep(Register(UnitPrices))
    \/ LedgerStep(OfferDeal)
    \/ LedgerStep(\E s \in Users, i \in DealIds, h \in ProofHashes : SubmitProof(s, i, h))
    \/ LedgerStep(\E s \in Users, i \in DealIds : CompleteDeal(s, i))
    \/ LedgerStep(\E s \in Users, i \in DealIds : CancelDeal(s, i))
    \/ LedgerStep(\E s \in RegisteringUsers, c \in Capacities : UpdateProviderCapacity(s, c))
    \/ LedgerStep(\E s \in RegisteringUsers, p \in UnitPrices : UpdateProviderPrice(s, p))
    \/ LedgerStep(\E s \in RegisteringUsers : DeactivateProvider(s))

Spec == Init /\ [][Next]_vars

(***************************************************************************)
(* The marketplace with its value transfers as steps of their own.  A      *)
(* transfer hands control to the recipient, which may call back into the   *)
(* contract before it returns (the 2300 gas stipend of transfer() is not   *)
(* relied on), may return, or may revert, which reverts the sending call.  *)
(***************************************************************************)
(* the contract state a revert of the call restores *)
SavedState ==
    [providers |-> providers, deals |-> deals, dealIdCounter |-> dealIdCounter,
     platformFee |-> platformFee, paused |-> paused, balance |-> balance,
     entered |-> entered]

(* msg.sender is an outside account, or the recipient of the transfer in flight *)
CanCall(sender) ==
    IF callStack = <<>> THEN TRUE ELSE sender = Head(callStack).to

(* createDeal leaving the provider's capacity as it was before the transfer *)
ReservedBeforeTransfer_Deferred(provider, fileSize) == providers

(* providers[provider].usedCapacity += fileSize, ahead of the transfers *)
ReservedBeforeTransfer(provider, fileSize) ==
    [providers EXCEPT ![provider].usedCapacity = @ + fileSize]

(* whenNotPaused, nonReentrant, then the requires of the body *)
GuardedCreateDealError(sender, provider, fileSize, duration, value) ==
    IF paused THEN "EnforcedPause"
    ELSE IF entered THEN "ReentrancyGuardReentrantCall"
    ELSE CreateDealError(sender, provider, fileSize, duration, value)

(* createDeal up to payable(provider).transfer(providerPayment) *)
CreateDealBegin(sender, provider, fileSize, duration, value) ==
    LET err == GuardedCreateDealError(sender, provider, fileSize, duration, value)
        dealId == dealIdCounter
        args == [NoArgs EXCEPT !.provider = provider, !.amount = fileSize,
                               !.duration = duration, !.value = value]
        totalPrice == TotalPrice(fileSize, providers[provider].pricePerByte, duration)
        fee == PlatformFeeOf(totalPrice, platformFee)
        providerPayment == totalPrice - fee
        payment == [to |-> provider, amount |-> providerPayment]
        refund == IF value > totalPrice
                  THEN <<[to |-> sender, amount |-> value - totalPrice]>> ELSE <<>>
    IN  /\ CanCall(sender)
        /\ IF err # ""
           THEN Revert("createDeal", sender, args, err) /\ UNCHANGED reentryVars
           ELSE /\ dealIdCounter' = dealIdCounter + 1
                /\ deals' = [deals EXCEPT ![dealId] =
                       [provider |-> provider, renter |-> sender, fileSize |-> fileSize,
                        pricePerByte |-> providers[provider].pricePerByte,
                        duration |-> duration, startTime |-> now,
                        endTime |-> now + duration, isActive |-> TRUE,
                        isCompleted |-> FALSE, proofHash |-> ""]]
                /\ providers' = ReservedBeforeTransfer(provider, fileSize)
                /\ balance' = balance + value - providerPayment
                /\ entered' = TRUE
                /\ callStack' =
                       <<[op |-> "createDeal", dealId |-> dealId, to |-> provider,
                          rest |-> refund,
                          call |-> CallRecord("createDeal", sender,
                                              [args EXCEPT !.dealId = dealId], "",
                                              <<payment>>),
                          saved |-> SavedState]>> \o callStack
                /\ last' = CallRecord("transfer", sender,
                                      [args EXCEPT !.dealId = dealId], "", <<payment>>)
                /\ UNCHANGED <<now, platformFee, paused>>

(* cancelDeal up to payable(deal.renter).transfer(refundAmount) *)
CancelDealBegin(sender, dealId) ==
    LET err == CancelDealError(sender, dealId)
        args == [NoArgs EXCEPT !.dealId = dealId]
        deal == deals[dealId]
        refundAmount == TotalPrice(deal.fileSize, deal.pricePerByte, deal.duration)
        refund == [to |-> deal.renter, amount |-> refundAmount]
    IN  /\ CanCall(sender)
        /\ IF err # ""
           THEN Revert("cancelDeal", sender, args, err) /\ UNCHANGED reentryVars
           ELSE /\ deals' = [deals EXCEPT ![dealId].isActive = FALSE]
                /\ providers' = [providers EXCEPT
                       ![deal.provider].usedCapacity = @ - deal.fileSize]
                /\ balance' = balance - refundAmount
                /\ callStack' =
                       <<[op |-> "cancelDeal", dealId |-> dealId, to |-> deal.renter,
                          rest |-> <<>>,
                          call |-> CallRecord("cancelDeal", sender, args, "", <<refund>>),
                          saved |-> SavedState]>> \o callStack
                /\ last' = CallRecord("transfer", sender, args, "", <<refund>>)
                /\ UNCHANGED <<now, dealIdCounter, platformFee, paused, entered>>

(* the call suspended in the innermost transfer reverts *)
RevertCall(err) ==
    LET frame == Head(callStack)
    IN  /\ providers' = frame.saved.providers
        /\ deals' = frame.saved.deals
        /\ dealIdCounter' = frame.saved.dealIdCounter
        /\ platformFee' = frame.saved.platformFee
        /\ paused' = frame.saved.paused
        /\ balance' = frame.saved.balance
        /\ entered' = frame.saved.entered
        /\ callStack' = Tail(callStack)
        /\ last' = CallRecord(frame.op, frame.call.sender, frame.call.args, err, <<>>)
        /\ UNCHANGED now

(* the recipient returns: the call goes on to its next transfer, or ends *)
TransferReturns ==
    /\ callStack # <<>>
    /\ LET frame == Head(callStack)
       IN  IF frame.rest # <<>>
           THEN LET next == Head(frame.rest)
                IN  IF balance < next.amount THEN RevertCall("TransferFailed")
                    ELSE /\ balance' = balance - next.amount
                         /\ callStack' =
                                <<[frame EXCEPT
                                     !.to = next.to, !.rest = Tail(@),
                                     !.call.transfers = Append(@, next)]>>
                                    \o Tail(callStack)
                         /\ last' = CallRecord("transfer", frame.call.sender,
                                               frame.call.args, "", <<next>>)
                         /\ UNCHANGED <<now, providers, deals, dealIdCounter,
                                        platformFee, paused, entered>>
           ELSE /\ callStack' = Tail(callStack)
                /\ entered' = IF frame.op = "createDeal" THEN FALSE ELSE entered
                /\ last' = frame.call
                /\ UNCHANGED marketVars

(* the recipient reverts (or runs out of gas): transfer() reverts the call *)
TransferRejected ==
    /\ callStack # <<>>
    /\ RevertCall("TransferFailed")

ReentryOfferDeal ==
    /\ dealIdCounter < MaxDeals
    /\ \E s \in RentingUsers, p \in RegisteringUsers, f \in FileSizes :
          \E v \in PaymentsFor(p, f, minDealDuration) :
              CreateDealBegin(s, p, f, minDealDuration, v)

(* a call made from outside, or by the recipient of the transfer in flight.
   The calls taken are those that read or write what a deal reserves or
   pays: registration, capacity, deactivation, completion, cancellation and
   createDeal itself. *)
Reentrant(A) == A /\ UNCHANGED reentryVars

ReentryStep(A) == last.ok /\ A /\ UNCHANGED <<discoveryVars, analyticsVars, nftVars, svcVars, devVars, netVars, splitCall>>

NextReentry ==
    \/ ReentryStep(\E t \in TimePoints : callStack = <<>> /\ Reentrant(Tick(t)))
    \/ ReentryStep(\E s \in RegisteringUsers, c \in Capacities, p \in UnitPrices :
                      CanCall(s) /\ Reentrant(RegisterProvider(s, c, p)))
    \/ ReentryStep(ReentryOfferDeal)
    \/ ReentryStep(TransferReturns)
    \/ ReentryStep(TransferRejected)
    \/ ReentryStep(\E s \in RentingUsers, i \in DealIds :
                      CanCall(s) /\ Reentrant(CompleteDeal(s, i)))
    \/ ReentryStep(\E s \in RentingUsers, i \in DealIds : CancelDealBegin(s, i))
    \/ ReentryStep(\E s \in RegisteringUsers, c \in Capacities :
                      CanCall(s) /\ Reentrant(UpdateProviderCapacity(s, c)))
    \/ ReentryStep(\E s \in RegisteringUsers :
                      CanCall(s) /\ Reentrant(DeactivateProvider(s)))

SpecReentry == Init /\ [][NextReentry]_vars

(***************************************************************************)
(* The money side of the ledger: registrations at several prices, deals,   *)
(* and the owner's operations (fee changes, withdrawals, pausing).         *)
(***************************************************************************)
NextFees ==
    \/ LedgerStep(Register(Prices))
    \/ LedgerStep(OfferDeal)
    \/ LedgerStep(\E s \in RegisteringUsers, p \in Prices : UpdateProviderPrice(s, p))
    \/ LedgerStep(\E s \in {Owner, "a1"}, f \in Fees : UpdatePlatformFee(s, f))
    \/ LedgerStep(\E s \in {Owner, "a1"} : WithdrawFees(s))
    \/ LedgerStep(\E s \in {Owner, "a1"} : Pause(s))
    \/ LedgerStep(\E s \in {Owner, "a1"} : Unpause(s))

SpecFees == Init /\ [][NextFees]_vars

(***************************************************************************)
(* One provider of capacity 1 serving deals of the minimum duration one    *)
(* after the other, time moving on only while a deal is running.           *)
(***************************************************************************)
RepTick ==
    /\ \E i \in DOMAIN deals : deals[i].isActive /\ deals[i].endTime > now
    /\ Tick(now + minDealDuration)

RepCreateDeal ==
    /\ dealIdCounter < RepDeals
    /\ CreateDeal("a2", "a1", 1, minDealDuration,
                  TotalPrice(1, providers["a1"].pricePerByte, minDealDuration))

RepCompleteDeal ==
    /\ dealIdCounter > 0
    /\ \E s \in {"a1", "a2"} : CompleteDeal(s, dealIdCounter - 1)

NextRep ==
    \/ LedgerStep(RepTick)
    \/ LedgerStep(RegisterProvider("a1", 1, 1))
    \/ LedgerStep(RepCreateDeal)
    \/ LedgerStep(RepCompleteDeal)

InitRep ==
    /\ InitLedger(AllDealIds) /\ InitNetworkService /\ InitDevice /\ InitStorageNetwork
    /\ InitSplit /\ InitReentry /\ InitStorageNFT /\ InitAnalytics
    /\ InitDiscovery

SpecRep == InitRep /\ [][NextRep]_vars

(***************************************************************************)
(*                 services/StorageNetworkService.ts                       *)
(***************************************************************************)
Min(a, b) == IF a <= b THEN a ELSE b

(* Math.ceil(a / b) for b > 0 *)
Ceil(a, b) == (a + b - 1) \div b

(* Map.set: an existing key keeps its place, a new key goes last *)
MapSet(m, address, obj) ==
    IF \E k \in DOMAIN m : m[k].address = address
    THEN [k \in DOMAIN m |->
             IF m[k].address = address THEN [address |-> address, obj |-> obj] ELSE m[k]]
    ELSE Append(m, [address |-> address, obj |-> obj])

(* getActiveProviders: the active provider objects in Map order *)
ActiveProviders ==
    SelectSeq([k \in DOMAIN svcProviders |-> svcProviders[k].obj],
              LAMBDA r : svcObjects[r].isActive)

FreeStorage(r) == svcObjects[r].totalStorage - svcObjects[r].usedStorage

(* score(a) > score(b), score = free / (uploadCount + 1) *)
HigherScore(a, b) ==
    FreeStorage(a) * (svcObjects[b].uploadCount + 1)
        > FreeStorage(b) * (svcObjects[a].uploadCount + 1)

(* Array.prototype.sort with (a, b) => scoreB - scoreA: descending, stable *)
InsertByScore(sorted, x) ==
    LET n == Cardinality({k \in DOMAIN sorted : ~HigherScore(x, sorted[k])})
    IN  SubSeq(sorted, 1, n) \o <<x>> \o SubSeq(sorted, n + 1, Len(sorted))

RECURSIVE SortByScore(_)
SortByScore(seq) ==
    IF seq = <<>> THEN <<>>
    ELSE InsertByScore(SortByScore(SubSeq(seq, 1, Len(seq) - 1)), seq[Len(seq)])

SelectProvidersForFile(fileSize, chunkCount, redundancy) ==
    LET chunkSize == Ceil(fileSize, chunkCount)
        requiredProviders == Min(chunkCount * redundancy, Len(ActiveProviders))
        sortedProviders ==
            SortByScore(SelectSeq(ActiveProviders, LAMBDA r : FreeStorage(r) >= chunkSize))
    IN  SubSeq(sortedProviders, 1, Min(requiredProviders, Len(sortedProviders)))

(* the slice [start, end) without its upper clamp to the file size *)
SliceEnd_Unclamped(start, fileSize, chunkSize) == start + chunkSize

(* const end = Math.min(start + chunkSize, file.size) *)
SliceEnd(start, fileSize, chunkSize) == Min(start + chunkSize, fileSize)

(* splitFileIntoChunks: the sizes of the slices [start, min(start + chunkSize, size)) *)
RECURSIVE SplitFrom(_, _, _)
SplitFrom(start, fileSize, chunkSize) ==
    IF ~(start < fileSize) THEN <<>>
    ELSE <<SliceEnd(start, fileSize, chunkSize) - start>>
            \o SplitFrom(start + chunkSize, fileSize, chunkSize)

(* splitFileIntoChunks(file, chunkSize) is called *)
SplitBegin(fileSize, chunkSize) ==
    /\ splitCall.pc \in {"idle", "done"}
    /\ splitCall' = [pc |-> "loop", fileSize |-> fileSize, chunkSize |-> chunkSize,
                     start |-> 0, chunks |-> <<>>]

(* one iteration of the for loop: slice, push, start += chunkSize.  With
   chunkSize = 0 start never advances and the loop pushes empty chunks
   without end; the run is followed for MaxSplitSize iterations. *)
SplitIterate ==
    /\ splitCall.pc = "loop"
    /\ splitCall.start < splitCall.fileSize
    /\ Len(splitCall.chunks) < MaxSplitSize
    /\ splitCall' = [splitCall EXCEPT
            !.chunks = Append(@, SliceEnd(splitCall.start, splitCall.fileSize,
                                          splitCall.chunkSize) - splitCall.start),
            !.start = @ + splitCall.chunkSize]

(* the loop condition fails: return { chunks, hashes } *)
SplitReturn ==
    /\ splitCall.pc = "loop"
    /\ ~(splitCall.start < splitCall.fileSize)
    /\ splitCall' = [splitCall EXCEPT !.pc = "done"]

SplitStep(A) == A /\ UNCHANGED <<discoveryVars, analyticsVars, nftVars, ledgerVars, svcVars, devVars, netVars, reentryVars>>

NextSplit ==
    \/ SplitStep(\E f \in 0..MaxSplitSize, c \in 0..MaxSplitChunk : SplitBegin(f, c))
    \/ SplitStep(SplitIterate)
    \/ SplitStep(SplitReturn)

SpecSplit == Init /\ [][NextSplit]_vars

SvcRegisterProvider(address, totalStorage) ==
    /\ Len(svcObjects) < MaxObjects
    /\ svcObjects' = Append(svcObjects,
            [address |-> address, totalStorage |-> totalStorage, usedStorage |-> 0,
             isActive |-> TRUE, uploadCount |-> 0])
    /\ svcProviders' = MapSet(svcProviders, address, Len(svcObjects) + 1)
    /\ UNCHANGED <<svcChunks, svcUploads>>

(***************************************************************************)
(* An upload: the caller selects the providers, splits the file and calls  *)
(* uploadChunksToIPFS, which runs up to its first await.                   *)
(***************************************************************************)
SvcStartUpload(u, fileSize, chunkSize, content, redundancy) ==
    /\ svcUploads[u].pc = "idle"
    /\ LET sizes == SplitFrom(0, fileSize, chunkSize)
       IN  svcUploads' = [svcUploads EXCEPT ![u] =
               [pc |-> "uploading", sizes |-> sizes, content |-> content,
                redundancy |-> redundancy,
                providers |-> SelectProvidersForFile(fileSize, Len(sizes), redundancy),
                i |-> 0]]
    /\ UNCHANGED <<svcObjects, svcProviders, svcChunks>>

(***************************************************************************)
(* uploadChunksToIPFS resumes after the await of chunk i: it records the   *)
(* chunk, charges the provider and goes on to the next chunk.  With an     *)
(* empty provider list providers[i % 0] is undefined and the read of its   *)
(* address throws inside the try block.                                    *)
(***************************************************************************)
SvcChunkUploaded(u) ==
    LET up == svcUploads[u]
        n == Len(up.providers)
        k == up.i + 1
    IN  /\ up.pc = "uploading"
        /\ IF n = 0
           THEN /\ svcUploads' = [svcUploads EXCEPT ![u].pc = "failed"]
                /\ UNCHANGED <<svcObjects, svcProviders, svcChunks>>
           ELSE LET r == up.providers[(up.i % n) + 1]
                IN  /\ svcChunks' = [svcChunks EXCEPT ![<<up.content, k>>] =
                            [size |-> up.sizes[k], provider |-> svcObjects[r].address]]
                    /\ svcObjects' = [svcObjects EXCEPT
                            ![r].usedStorage = @ + up.sizes[k],
                            ![r].uploadCount = @ + 1]
                    /\ svcProviders' = MapSet(svcProviders, svcObjects[r].address, r)
                    /\ svcUploads' = [svcUploads EXCEPT
                            ![u].i = k,
                            ![u].pc = IF k = Len(up.sizes) THEN "done" ELSE "uploading"]

(* the awaited upload of chunk i rejects: the catch block rethrows *)
SvcChunkFailed(u) ==
    /\ svcUploads[u].pc = "uploading"
    /\ svcUploads' = [svcUploads EXCEPT ![u].pc = "failed"]
    /\ UNCHANGED <<svcObjects, svcProviders, svcChunks>>

ServiceStep(A) ==
    A /\ UNCHANGED <<discoveryVars, analyticsVars, nftVars, ledgerVars, devVars, netVars, splitCall, reentryVars, svcFiles>>

NextService ==
    \/ ServiceStep(\E a \in SvcAddresses, t \in 1..MaxStorage : SvcRegisterProvider(a, t))
    \/ ServiceStep(\E u \in UploadIds, f \in 1..MaxFileBytes, c \in ChunkSizes,
                      content \in Contents, r \in Redundancies :
                         SvcStartUpload(u, f, c, content, r))
    \/ ServiceStep(\E u \in UploadIds : SvcChunkUploaded(u))
    \/ ServiceStep(\E u \in UploadIds : SvcChunkFailed(u))

SpecService == Init /\ [][NextService]_vars

(***************************************************************************)
(* registerDistributedFile, called for the file of upload u once           *)
(* uploadChunksToIPFS has settled, with the file's size and the hashes     *)
(* splitFileIntoChunks returned: the hashes are looked up in the chunk     *)
(* table and those it does not hold are dropped (filter(Boolean)).         *)
(***************************************************************************)
RECURSIVE KnownChunkSizes(_, _)
KnownChunkSizes(content, n) ==
    IF n = 0 THEN <<>>
    ELSE KnownChunkSizes(content, n - 1)
            \o (IF svcChunks[<<content, n>>] = NoChunk THEN <<>>
                ELSE <<svcChunks[<<content, n>>].size>>)

RECURSIVE SumSizes(_)
SumSizes(sizes) ==
    IF sizes = <<>> THEN 0 ELSE sizes[1] + SumSizes(Tail(sizes))

SvcRegisterDistributedFile(fileId, u) ==
    LET up == svcUploads[u]
    IN  /\ up.pc \in {"done", "failed"}
        /\ svcFiles' = [svcFiles EXCEPT ![fileId] =
               [totalSize |-> SumSizes(up.sizes),
                chunks |-> KnownChunkSizes(up.content, Len(up.sizes)),
                isActive |-> TRUE]]
        /\ UNCHANGED <<svcObjects, svcProviders, svcChunks, svcUploads>>

(***************************************************************************)
(* Files of MaxFileBytes bytes uploaded in chunks of one byte, one upload  *)
(* per content, and registered afterwards.                                 *)
(***************************************************************************)
FilesStep(A) == A /\ UNCHANGED <<discoveryVars, analyticsVars, nftVars, ledgerVars, devVars, netVars, splitCall, reentryVars>>

NextFiles ==
    \/ ServiceStep(\E a \in SvcAddresses : SvcRegisterProvider(a, MaxStorage))
    \/ ServiceStep(\E u \in UploadIds :
                      SvcStartUpload(u, MaxFileBytes, 1, IF u = 1 THEN "f1" ELSE "f2", 1))
    \/ ServiceStep(\E u \in UploadIds : SvcChunkUploaded(u))
    \/ ServiceStep(\E u \in UploadIds : SvcChunkFailed(u))
    \/ FilesStep(\E f \in SvcFileIds, u \in UploadIds : SvcRegisterDistributedFile(f, u))

SpecFiles == Init /\ [][NextFiles]_vars

(***************************************************************************)
(*                services/PhysicalStorageService.ts                       *)
(***************************************************************************)
(* initializeStorage: navigator.storage.estimate() resolves *)
InitializeStorage(quota, usage) ==
    /\ storageQuota = 0
    /\ storageQuota' = quota
    /\ usedStorage' = usage
    /\ UNCHANGED <<devObjects, contributions, fileChunks, devStores>>

(* contributeStorage: a new contribution record replaces the device's entry *)
ContributeStorage(spaceInBytes) ==
    /\ Len(devObjects) < MaxContributions
    /\ ~(spaceInBytes > storageQuota - usedStorage)
    /\ devObjects' = Append(devObjects,
            [contributedBytes |-> spaceInBytes, availableBytes |-> spaceInBytes,
             isActive |-> TRUE])
    /\ contributions' = Len(devObjects) + 1
    /\ UNCHANGED <<storageQuota, usedStorage, fileChunks, devStores>>

(***************************************************************************)
(* storeFileChunk up to its first await: the contribution is looked up and *)
(* the chunk size compared with availableBytes; the call throws when the   *)
(* device does not contribute or the chunk does not fit.                   *)
(***************************************************************************)
StoreFileChunkBegin(t, chunkId, size) ==
    /\ devStores[t].pc = "idle"
    /\ contributions # 0
    /\ devObjects[contributions].isActive
    /\ ~(size > devObjects[contributions].availableBytes)
    /\ devStores' = [devStores EXCEPT ![t] =
            [pc |-> "storing", chunkId |-> chunkId, size |-> size,
             contribution |-> contributions]]
    /\ UNCHANGED <<storageQuota, usedStorage, devObjects, contributions, fileChunks>>

(* storeFileChunk after the IndexedDB write and the hash: record and charge *)
StoreFileChunkCommit(t) ==
    LET st == devStores[t] IN
    /\ st.pc = "storing"
    /\ fileChunks' = [fileChunks EXCEPT ![st.chunkId] = st.size]
    /\ devObjects' = [devObjects EXCEPT ![st.contribution].availableBytes = @ - st.size]
    /\ contributions' = st.contribution
    /\ devStores' = [devStores EXCEPT ![t] = IdleStore]
    /\ UNCHANGED <<storageQuota, usedStorage>>

(* the IndexedDB write rejects: storeFileChunk returns false *)
StoreFileChunkFail(t) ==
    /\ devStores[t].pc = "storing"
    /\ devStores' = [devStores EXCEPT ![t] = IdleStore]
    /\ UNCHANGED <<storageQuota, usedStorage, devObjects, contributions, fileChunks>>

DeviceStep(A) == A /\ UNCHANGED <<discoveryVars, analyticsVars, nftVars, ledgerVars, svcVars, netVars, splitCall, reentryVars>>

NextDevice ==
    \/ DeviceStep(\E q \in 1..MaxQuota, usage \in 0..1 : InitializeStorage(q, usage))
    \/ DeviceStep(\E b \in 1..MaxQuota : ContributeStorage(b))
    \/ DeviceStep(\E t \in StoreIds, c \in ChunkIds, z \in 1..MaxChunkBytes :
                     StoreFileChunkBegin(t, c, z))
    \/ DeviceStep(\E t \in StoreIds : StoreFileChunkCommit(t))
    \/ DeviceStep(\E t \in StoreIds : StoreFileChunkFail(t))

SpecDevice == Init /\ [][NextDevice]_vars

(***************************************************************************)
(*                 StorageNetwork.sol with DestoreToken.sol                *)
(***************************************************************************)
NetRevert(op, sender, amount, fileId, err) ==
    /\ netLast' = NetCallRecord(op, sender, amount, fileId, err)
    /\ UNCHANGED netStateVars

(***************************************************************************)
(* DestoreToken.contributeStorage is nonReentrant and, for a caller that   *)
(* has contributed before, calls the public nonReentrant claimRewards      *)
(* while the guard is already entered: that call reverts.                  *)
(***************************************************************************)
ContributeStorageError(holder, storageAmount) ==
    IF ~(storageAmount >= MIN_STORAGE_CONTRIBUTION) THEN "Minimum 10GB required"
    ELSE IF ~(storageAmount <= MAX_STORAGE_CONTRIBUTION) THEN "Maximum 1TB allowed"
    ELSE IF storageContributed[holder] > 0 THEN "ReentrancyGuardReentrantCall"
    ELSE ""

ImmediateReward(storageAmount) ==
    IF storageAmount >= MIN_STORAGE_CONTRIBUTION /\ storageAmount <= SmallContributionLimit
    THEN SmallContributionReward
    ELSE IF storageAmount > SmallContributionLimit THEN storageAmount
    ELSE 0

RegisterStorageProviderError(sender, storageCapacity) ==
    IF ~(storageCapacity >= MinStorageCapacity) THEN "Minimum 10GB storage required"
    ELSE IF storageProviders[sender].isActive THEN "Already registered"
    ELSE ContributeStorageError(NetworkAddr, storageCapacity)

RegisterStorageProvider(sender, storageCapacity) ==
    LET err == RegisterStorageProviderError(sender, storageCapacity) IN
    IF err # "" THEN NetRevert("registerStorageProvider", sender, storageCapacity, "", err)
    ELSE /\ nextTokenId' = nextTokenId + 1
         /\ storageProviders' = [storageProviders EXCEPT ![sender] =
                [totalStorage |-> storageCapacity, usedStorage |-> 0, uploadCount |-> 0,
                 isActive |-> TRUE, nftTokenId |-> nextTokenId]]
         /\ activeProviders' = Append(activeProviders, sender)
         /\ isStorageProvider' = [isStorageProvider EXCEPT ![NetworkAddr] = TRUE]
         /\ storageContributed' =
                [storageContributed EXCEPT ![NetworkAddr] = @ + storageCapacity]
         /\ lastRewardClaim' = [lastRewardClaim EXCEPT ![NetworkAddr] = now]
         /\ tokenBalance' =
                [tokenBalance EXCEPT ![NetworkAddr] = @ + ImmediateReward(storageCapacity)]
         /\ netLast' = NetCallRecord("registerStorageProvider", sender, storageCapacity, "", "")
         /\ UNCHANGED <<netFileChunks, distributedFiles>>

(* _selectProvider: the scan of activeProviders from index i on *)
RECURSIVE SelectProviderFrom(_, _, _, _, _)
SelectProviderFrom(i, provs, chunkSize, bestProvider, bestScore) ==
    IF i > Len(activeProviders) THEN bestProvider
    ELSE LET provider == activeProviders[i]
             sp == provs[provider]
             score == (sp.totalStorage - sp.usedStorage) \div (sp.uploadCount + 1)
         IN  IF ~sp.isActive \/ sp.totalStorage - sp.usedStorage < chunkSize
             THEN SelectProviderFrom(i + 1, provs, chunkSize, bestProvider, bestScore)
             ELSE IF score > bestScore
             THEN SelectProviderFrom(i + 1, provs, chunkSize, provider, score)
             ELSE SelectProviderFrom(i + 1, provs, chunkSize, bestProvider, bestScore)

SelectProvider(provs, chunkSize) == SelectProviderFrom(1, provs, chunkSize, ZeroAddr, 0)

(* uploadFileToNetwork: the loop over the chunks from index i on *)
RECURSIVE DistributeChunks(_, _, _, _)
DistributeChunks(i, chunkHashes, chunkSize, st) ==
    IF i > Len(chunkHashes) THEN st
    ELSE LET provider == SelectProvider(st.providers, chunkSize) IN
         IF provider = ZeroAddr THEN [st EXCEPT !.err = "No suitable provider found"]
         ELSE DistributeChunks(i + 1, chunkHashes, chunkSize,
                 [providers |-> [st.providers EXCEPT
                                    ![provider].usedStorage = @ + chunkSize,
                                    ![provider].uploadCount = @ + 1],
                  chunks |-> [st.chunks EXCEPT ![chunkHashes[i]] =
                                    [provider |-> provider, size |-> chunkSize]],
                  selected |-> Append(st.selected, provider),
                  err |-> ""])

UploadFileToNetworkError(sender, fileId, fileSize, chunkHashes) ==
    IF ~(fileId # "") THEN "Invalid file ID"
    ELSE IF ~(fileSize > 0) THEN "Invalid file size"
    ELSE IF ~(Len(chunkHashes) > 0) THEN "No chunks provided"
    ELSE IF distributedFiles[fileId].isActive THEN "File already exists"
    ELSE IF ~(Len(activeProviders) >= MIN_REDUNDANCY) THEN "Insufficient active providers"
    ELSE DistributeChunks(1, chunkHashes, fileSize \div Len(chunkHashes),
            [providers |-> storageProviders, chunks |-> netFileChunks,
             selected |-> <<>>, err |-> ""]).err

UploadFileToNetwork(sender, fileId, fileSize, chunkHashes) ==
    LET err == UploadFileToNetworkError(sender, fileId, fileSize, chunkHashes) IN
    IF err # "" THEN NetRevert("uploadFileToNetwork", sender, fileSize, fileId, err)
    ELSE LET st == DistributeChunks(1, chunkHashes, fileSize \div Len(chunkHashes),
                      [providers |-> storageProviders, chunks |-> netFileChunks,
                       selected |-> <<>>, err |-> ""])
         IN  /\ storageProviders' = st.providers
             /\ netFileChunks' = st.chunks
             /\ distributedFiles' = [distributedFiles EXCEPT ![fileId] =
                    [totalSize |-> fileSize, uploader |-> sender,
                     chunkHashes |-> chunkHashes, chunkProviders |-> st.selected,
                     isActive |-> TRUE]]
             /\ netLast' = NetCallRecord("uploadFileToNetwork", sender, fileSize, fileId, "")
             /\ UNCHANGED <<activeProviders, nextTokenId, storageContributed,
                            lastRewardClaim, isStorageProvider, tokenBalance>>

(* deactivateProvider without the removal from the list *)
SwapRemove_Keeps(seq, a) == seq

(* the first occurrence of a is overwritten by the last element, which is popped *)
SwapRemove(seq, a) ==
    IF \E k \in DOMAIN seq : seq[k] = a
    THEN LET i == CHOOSE k \in DOMAIN seq :
                     seq[k] = a /\ \A j \in 1..(k - 1) : seq[j] # a
         IN  SubSeq([seq EXCEPT ![i] = seq[Len(seq)]], 1, Len(seq) - 1)
    ELSE seq

NetDeactivateProviderError(sender) ==
    IF ~storageProviders[sender].isActive THEN "Not an active provider" ELSE ""

NetDeactivateProvider(sender) ==
    LET err == NetDeactivateProviderError(sender) IN
    IF err # "" THEN NetRevert("deactivateProvider", sender, 0, "", err)
    ELSE /\ storageProviders' = [storageProviders EXCEPT ![sender].isActive = FALSE]
         /\ activeProviders' = SwapRemove(activeProviders, sender)
         /\ netLast' = NetCallRecord("deactivateProvider", sender, 0, "", "")
         /\ UNCHANGED <<nextTokenId, netFileChunks, distributedFiles, storageContributed,
                        lastRewardClaim, isStorageProvider, tokenBalance>>

NetworkStep(A) ==
    netLast.ok /\ A /\ UNCHANGED <<discoveryVars, analyticsVars, nftVars, ledgerVars, svcVars, devVars, splitCall, reentryVars>>

NextNetwork ==
    \/ NetworkStep(\E s \in NetAddresses, c \in NetCapacities : RegisterStorageProvider(s, c))
    \/ NetworkStep(\E s \in NetAddresses, f \in FileIds, z \in NetFileSizes,
                      h \in ChunkHashLists : UploadFileToNetwork(s, f, z, h))
    \/ NetworkStep(\E s \in NetAddresses : NetDeactivateProvider(s))

SpecNetwork == Init /\ [][NextNetwork]_vars

(***************************************************************************)
(*                            StorageNFT.sol                               *)
(***************************************************************************)
NftRevert(op, sender, args, err) ==
    /\ nftLast' = NftCallRecord(op, sender, args, err, <<>>)
    /\ UNCHANGED nftStateVars

(* the cost of one copy only *)
StorageCost_OneCopy(size, redundancyFactor) == size * storagePricePerByte

(* uint256 storageCost = size * storagePricePerByte * redundancyFactor *)
StorageCost(size, redundancyFactor) == size * storagePricePerByte * redundancyFactor

MintFileStorageError(sender, name, size, ipfsHash, redundancyFactor, value) ==
    IF ~(name # "") THEN "File name cannot be empty"
    ELSE IF ~(size > 0) THEN "File size must be greater than 0"
    ELSE IF ~(redundancyFactor > 0) THEN "Redundancy factor must be greater than 0"
    ELSE IF ~(ipfsToToken[ipfsHash] = 0) THEN "File already exists"
    ELSE IF ~(value >= StorageCost(size, redundancyFactor))
        THEN "Insufficient payment for storage"
    ELSE ""

MintFileStorage(sender, name, size, mimeType, ipfsHash, redundancyFactor, value) ==
    LET err == MintFileStorageError(sender, name, size, ipfsHash, redundancyFactor, value)
        args == [name |-> name, size |-> size, mimeType |-> mimeType,
                 ipfsHash |-> ipfsHash, redundancyFactor |-> redundancyFactor,
                 value |-> value, tokenId |-> -1]
        storageCost == StorageCost(size, redundancyFactor)
        tokenId == tokenIdCounter
    IN  IF err # "" THEN NftRevert("mintFileStorage", sender, args, err)
        ELSE /\ tokenIdCounter' = tokenIdCounter + 1
             /\ tokenOwner' = [tokenOwner EXCEPT ![tokenId] = sender]
             /\ fileMetadata' = [fileMetadata EXCEPT ![tokenId] =
                    [name |-> name, size |-> size, mimeType |-> mimeType,
                     ipfsHash |-> ipfsHash, redundancyFactor |-> redundancyFactor,
                     storagePrice |-> storageCost, uploader |-> sender,
                     isActive |-> TRUE]]
             /\ ipfsToToken' = [ipfsToToken EXCEPT ![ipfsHash] = tokenId]
             /\ nftBalance' = nftBalance + value
                                - (IF value > storageCost THEN value - storageCost ELSE 0)
             /\ nftLast' = NftCallRecord("mintFileStorage", sender,
                               [args EXCEPT !.tokenId = tokenId], "",
                               IF value > storageCost
                               THEN <<[to |-> sender, amount |-> value - storageCost]>>
                               ELSE <<>>)
             /\ UNCHANGED storagePricePerByte

DeactivateFileError(sender, tokenId) ==
    IF ~(tokenId < tokenIdCounter) THEN "Token does not exist"
    ELSE IF ~(tokenOwner[tokenId] = sender) THEN "Not the owner of this file"
    ELSE ""

DeactivateFile(sender, tokenId) ==
    LET err == DeactivateFileError(sender, tokenId)
        args == [NftNoArgs EXCEPT !.tokenId = tokenId]
    IN  IF err # "" THEN NftRevert("deactivateFile", sender, args, err)
        ELSE /\ fileMetadata' = [fileMetadata EXCEPT ![tokenId].isActive = FALSE]
             /\ nftLast' = NftCallRecord("deactivateFile", sender, args, "", <<>>)
             /\ UNCHANGED <<tokenIdCounter, ipfsToToken, tokenOwner,
                            storagePricePerByte, nftBalance>>

UpdateStoragePriceError(sender, newPrice) ==
    IF sender # Owner THEN "OwnableUnauthorizedAccount"
    ELSE IF ~(newPrice > 0) THEN "Price must be greater than 0"
    ELSE ""

UpdateStoragePrice(sender, newPrice) ==
    LET err == UpdateStoragePriceError(sender, newPrice)
        args == [NftNoArgs EXCEPT !.value = newPrice]
    IN  IF err # "" THEN NftRevert("updateStoragePrice", sender, args, err)
        ELSE /\ storagePricePerByte' = newPrice
             /\ nftLast' = NftCallRecord("updateStoragePrice", sender, args, "", <<>>)
             /\ UNCHANGED <<tokenIdCounter, fileMetadata, ipfsToToken, tokenOwner,
                            nftBalance>>

NftWithdrawError(sender) ==
    IF sender # Owner THEN "OwnableUnauthorizedAccount"
    ELSE IF ~(nftBalance > 0) THEN "No funds to withdraw"
    ELSE ""

NftWithdraw(sender) ==
    LET err == NftWithdrawError(sender)
    IN  IF err # "" THEN NftRevert("withdraw", sender, NftNoArgs, err)
        ELSE /\ nftBalance' = 0
             /\ nftLast' = NftCallRecord("withdraw", sender, NftNoArgs, "",
                                         <<[to |-> Owner, amount |-> nftBalance]>>)
             /\ UNCHANGED <<tokenIdCounter, fileMetadata, ipfsToToken, tokenOwner,
                            storagePricePerByte>>

(* msg.value offered with a mint: one unit short of the cost, the cost, one more *)
MintPayments(size, redundancyFactor) ==
    {v \in {StorageCost(size, redundancyFactor) + e : e \in {-1, 0, 1}} : v >= 0}

OfferMint ==
    /\ tokenIdCounter < MaxTokens
    /\ \E s \in NftSenders, n \in FileNames, z \in NftSizes, m \in MimeTypes,
          h \in IpfsHashes, r \in RedundancyFactors :
          \E v \in MintPayments(z, r) : MintFileStorage(s, n, z, m, h, r, v)

NftStep(A) ==
    nftLast.ok /\ A
        /\ UNCHANGED <<discoveryVars, analyticsVars, ledgerVars, svcVars, devVars, netVars, splitCall, reentryVars>>

NextNFT ==
    \/ NftStep(OfferMint)
    \/ NftStep(\E s \in NftSenders, t \in TokenIds : DeactivateFile(s, t))
    \/ NftStep(\E s \in {Owner, "a1"}, p \in StoragePrices : UpdateStoragePrice(s, p))
    \/ NftStep(\E s \in {Owner, "a1"} : NftWithdraw(s))

SpecNFT == Init /\ [][NextNFT]_vars

(***************************************************************************)
(*                  Properties of capacity accounting                      *)
(***************************************************************************)
(* C1: after any sequence of registrations, capacity updates, deals and
   whole-file chunk placements every provider has
   0 <= usedCapacity <= totalCapacity. *)
C1_UsedWithinCapacity ==
    /\ \A a \in DOMAIN providers :
          /\ 0 <= providers[a].usedCapacity
          /\ providers[a].usedCapacity <= providers[a].totalCapacity
    /\ \A k \in DOMAIN svcProviders :
          /\ 0 <= svcObjects[svcProviders[k].obj].usedStorage
          /\ svcObjects[svcProviders[k].obj].usedStorage
                <= svcObjects[svcProviders[k].obj].totalStorage

(* C2: reservations of concurrent uploads on one device behave as atomic
   steps: the bytes reserved never exceed what the device contributed and
   its free space never becomes negative. *)
C2_AtomicReservation ==
    \A r \in DOMAIN devObjects :
        /\ 0 <= devObjects[r].availableBytes
        /\ devObjects[r].availableBytes <= devObjects[r].contributedBytes

(***************************************************************************)
(*                    Properties of the deal ledger                        *)
(***************************************************************************)
Rejected == ~last'.ok /\ last'.transfers = <<>> /\ UNCHANGED marketVars

TerminalStatus == {"Completed", "Cancelled"}

DealOps == {"submitProof", "completeDeal", "cancelDeal"}

FreeCapacity(p) == providers[p].totalCapacity - providers[p].usedCapacity

(* C3: a deal is Active from its creation, leaves Active only for Completed
   (by completeDeal) or Cancelled (by cancelDeal), and once it is Completed
   or Cancelled every submitProof, completeDeal and cancelDeal on it is
   rejected and changes nothing. *)
C3_DealStateMachine ==
    [][ /\ (last'.op = "createDeal" /\ last'.ok) =>
               /\ Status(deals[last'.args.dealId]) = "None"
               /\ Status(deals'[last'.args.dealId]) = "Active"
        /\ \A i \in DOMAIN deals :
             /\ Status(deals'[i]) # Status(deals[i]) =>
                  \/ /\ Status(deals[i]) = "None" /\ Status(deals'[i]) = "Active"
                     /\ last'.op = "createDeal" /\ last'.args.dealId = i
                  \/ /\ Status(deals[i]) = "Active" /\ Status(deals'[i]) = "Completed"
                     /\ last'.op = "completeDeal" /\ last'.args.dealId = i
                  \/ /\ Status(deals[i]) = "Active" /\ Status(deals'[i]) = "Cancelled"
                     /\ last'.op = "cancelDeal" /\ last'.args.dealId = i
             /\ Status(deals[i]) \in TerminalStatus => deals'[i] = deals[i]
             /\ (Status(deals[i]) \in TerminalStatus /\ last'.op \in DealOps
                    /\ last'.args.dealId = i) => Rejected
      ]_vars

(* a call by the deal's own provider or renter on a Completed deal was rejected *)
C3_Witness ==
    /\ last.op \in DealOps /\ ~last.ok
    /\ Status(deals[last.args.dealId]) = "Completed"
    /\ last.sender \in {deals[last.args.dealId].provider, deals[last.args.dealId].renter}
    /\ last.err = "Deal not active"

(* C4: a successful createDeal paid with P charges fileSize * pricePerByte *
   duration, sends the provider that price less floor(price * platformFee /
   10000), refunds exactly P - price to the renter, keeps the fee, and adds
   exactly fileSize to the provider's usedCapacity. *)
C4_CreateDealPayment ==
    [][ (last'.op = "createDeal" /\ last'.ok) =>
          LET a == last'.args
              totalPrice == a.amount * providers[a.provider].pricePerByte * a.duration
              fee == (totalPrice * platformFee) \div FeeDenominator
          IN  /\ a.value >= totalPrice
              /\ last'.transfers[1] = [to |-> a.provider, amount |-> totalPrice - fee]
              /\ IF a.value > totalPrice
                 THEN /\ Len(last'.transfers) = 2
                      /\ last'.transfers[2] =
                            [to |-> last'.sender, amount |-> a.value - totalPrice]
                 ELSE Len(last'.transfers) = 1
              /\ balance' = balance + fee
              /\ providers'[a.provider].usedCapacity =
                    providers[a.provider].usedCapacity + a.amount
              /\ deals'[a.dealId].fileSize = a.amount
      ]_vars

(* an overpaid deal was created after the owner changed the fee *)
C4_Witness ==
    /\ last.op = "createDeal" /\ last.ok
    /\ Len(last.transfers) = 2
    /\ last.transfers[2].amount = MaxExcess
    /\ platformFee = MaxPlatformFee

DealAcceptable(a) ==
    /\ ~paused
    /\ providers[a.provider].isActive
    /\ a.amount > 0
    /\ a.duration >= minDealDuration /\ a.duration <= maxDealDuration
    /\ FreeCapacity(a.provider) >= a.amount

(* C5: createDeal paid with less than the total price fails (with
   "Insufficient payment" when nothing else is wrong), creates no deal,
   consumes no deal id, moves no funds and leaves usedCapacity unchanged. *)
C5_UnderpaidDealRejected ==
    [][ (/\ last'.op = "createDeal"
         /\ last'.args.value < last'.args.amount
               * providers[last'.args.provider].pricePerByte * last'.args.duration) =>
          /\ Rejected
          /\ deals' = deals /\ dealIdCounter' = dealIdCounter /\ balance' = balance
          /\ providers'[last'.args.provider].usedCapacity
                = providers[last'.args.provider].usedCapacity
          /\ DealAcceptable(last'.args) => last'.err = "Insufficient payment"
      ]_vars

(* a createDeal one wei short of the price was rejected *)
C5_Witness ==
    /\ last.op = "createDeal" /\ ~last.ok
    /\ last.err = "Insufficient payment"
    /\ last.args.value + 1 = TotalPrice(last.args.amount,
                                providers[last.args.provider].pricePerByte,
                                last.args.duration)

(* C6: createDeal fails and changes nothing when the provider is not
   active, its free capacity is smaller than fileSize, or the duration lies
   outside [minDealDuration, maxDealDuration]. *)
C6_InvalidDealRejected ==
    [][ (/\ last'.op = "createDeal"
         /\ \/ ~providers[last'.args.provider].isActive
            \/ FreeCapacity(last'.args.provider) < last'.args.amount
            \/ last'.args.duration < minDealDuration
            \/ last'.args.duration > maxDealDuration) =>
          /\ Rejected
          /\ deals' = deals /\ dealIdCounter' = dealIdCounter /\ balance' = balance
          /\ providers' = providers
      ]_vars

(* a fully paid deal was refused by a provider whose capacity is partly used *)
C6_Witness ==
    /\ last.op = "createDeal" /\ ~last.ok
    /\ providers[last.args.provider].isActive
    /\ providers[last.args.provider].usedCapacity > 0
    /\ FreeCapacity(last.args.provider) < last.args.amount
    /\ last.args.duration = minDealDuration
    /\ last.args.value >= TotalPrice(last.args.amount,
                             providers[last.args.provider].pricePerByte,
                             last.args.duration)

Max0(x) == IF x < 0 THEN 0 ELSE x

(* C7: completeDeal by the renter or the provider of an Active deal at
   now >= endTime succeeds: the deal becomes Completed, usedCapacity drops
   by fileSize and the reputation moves by +10 with a proof and by -5
   without, never below 0, whatever the reputation was. *)
C7_CompleteDealSucceeds ==
    [][ (/\ last'.op = "completeDeal"
         /\ last'.sender \in {deals[last'.args.dealId].renter,
                              deals[last'.args.dealId].provider}
         /\ deals[last'.args.dealId].isActive
         /\ now >= deals[last'.args.dealId].endTime) =>
          LET d == deals[last'.args.dealId]
              p == d.provider
          IN  /\ last'.ok
              /\ Status(deals'[last'.args.dealId]) = "Completed"
              /\ providers'[p].usedCapacity = providers[p].usedCapacity - d.fileSize
              /\ providers'[p].reputation =
                    Max0(providers[p].reputation
                         + (IF d.proofHash # "" THEN ProofReward ELSE 0 - NoProofPenalty))
      ]_vars

(* C8: submitProof is accepted only while now < endTime and completeDeal
   only once now >= endTime; outside its window a call is rejected without
   effect, no caller can have both accepted at one instant, and a proof is
   never recorded at or after endTime. *)
C8_DisjointWindows ==
    [][ /\ last'.op = "submitProof" =>
             /\ last'.ok => now < deals[last'.args.dealId].endTime
             /\ now >= deals[last'.args.dealId].endTime => Rejected
        /\ last'.op = "completeDeal" =>
             /\ last'.ok => now >= deals[last'.args.dealId].endTime
             /\ now < deals[last'.args.dealId].endTime => Rejected
        /\ \A i \in DOMAIN deals :
             /\ deals'[i].proofHash # deals[i].proofHash => now < deals[i].endTime
             /\ \A s \in Callers :
                  ~(SubmitProofError(s, i) = "" /\ CompleteDealError(s, i) = "")
      ]_vars

(* the provider's proof for its own Active deal was refused at endTime *)
C8_Witness ==
    /\ last.op = "submitProof" /\ ~last.ok
    /\ last.err = "Deal expired"
    /\ deals[last.args.dealId].isActive
    /\ now = deals[last.args.dealId].endTime

(* C9: submitProof is accepted only from the deal's provider, completeDeal
   only from its renter or provider, cancelDeal only from its renter; a call
   from anyone else, or on a deal id that was never created, is rejected and
   changes nothing. *)
C9_OnlyTheParties ==
    [][ LET i == last'.args.dealId IN
        /\ last'.op = "submitProof" /\ last'.sender # deals[i].provider => Rejected
        /\ (last'.op = "completeDeal"
              /\ last'.sender \notin {deals[i].renter, deals[i].provider}) => Rejected
        /\ last'.op = "cancelDeal" /\ last'.sender # deals[i].renter => Rejected
        /\ last'.op \in DealOps /\ i >= dealIdCounter => Rejected
      ]_vars

(* a third party's completeDeal on an expired Active deal was refused *)
C9_Witness ==
    /\ last.op = "completeDeal" /\ ~last.ok
    /\ last.err = "Not authorized"
    /\ deals[last.args.dealId].isActive
    /\ now >= deals[last.args.dealId].endTime

(* C10: cancelDeal by the renter of an Active deal fails ("Deal already
   started") when now >= startTime; when now < startTime it succeeds, the
   deal becomes Cancelled, usedCapacity drops by fileSize and the renter is
   refunded fileSize * pricePerByte * duration. *)
C10_CancelWindow ==
    [][ (/\ last'.op = "cancelDeal"
         /\ last'.sender = deals[last'.args.dealId].renter
         /\ deals[last'.args.dealId].isActive) =>
          LET d == deals[last'.args.dealId]
              p == d.provider
          IN  IF now >= d.startTime
              THEN Rejected /\ last'.err = "Deal already started"
              ELSE /\ last'.ok
                   /\ Status(deals'[last'.args.dealId]) = "Cancelled"
                   /\ providers'[p].usedCapacity = providers[p].usedCapacity - d.fileSize
                   /\ last'.transfers =
                         <<[to |-> d.renter,
                            amount |-> d.fileSize * d.pricePerByte * d.duration]>>
      ]_vars

(* the renter's cancelDeal on its Active deal was refused after the start *)
C10_Witness ==
    /\ last.op = "cancelDeal" /\ ~last.ok
    /\ last.err = "Deal already started"
    /\ last.sender = deals[last.args.dealId].renter
    /\ deals[last.args.dealId].isActive
    /\ now > deals[last.args.dealId].startTime

(* C11: a successful submitProof changes only the deal's proofHash, which
   it overwrites with the submitted value; status, start and end times, the
   provider's usedCapacity and reputation and every balance stay as they
   were, however often a proof is resubmitted. *)
C11_SubmitProofFrame ==
    [][ (last'.op = "submitProof" /\ last'.ok) =>
          /\ deals' = [deals EXCEPT ![last'.args.dealId].proofHash = last'.args.proofHash]
          /\ Status(deals'[last'.args.dealId]) = "Active"
          /\ providers' = providers
          /\ balance' = balance
          /\ last'.transfers = <<>>
          /\ dealIdCounter' = dealIdCounter
      ]_vars

(* the provider's proof was recorded for its running deal *)
C11_Witness ==
    /\ last.op = "submitProof" /\ last.ok
    /\ last.args.proofHash # ""
    /\ deals[last.args.dealId].proofHash = last.args.proofHash
    /\ deals[last.args.dealId].isActive
    /\ providers[last.sender].reputation = InitialReputation

(* C17: registerProvider with capacity <= 0 or price <= 0 fails and
   creates or changes no provider record; a successful registerProvider
   leaves the caller an active provider with the capacity and price given,
   usedCapacity 0 and reputation exactly 100. *)
C17_RegisterValidated ==
    [][ last'.op = "registerProvider" =>
          /\ (last'.args.amount <= 0 \/ last'.args.value <= 0) =>
                Rejected /\ providers' = providers
          /\ last'.ok =>
                /\ providers'[last'.sender] =
                      [totalCapacity |-> last'.args.amount, usedCapacity |-> 0,
                       reputation |-> 100, isActive |-> TRUE,
                       pricePerByte |-> last'.args.value]
                /\ \A a \in DOMAIN providers \ {last'.sender} :
                      providers'[a] = providers[a]
      ]_vars

(* a registration offering capacity at price 0 was refused *)
C17_Witness ==
    /\ last.op = "registerProvider" /\ ~last.ok
    /\ last.args.amount > 0 /\ last.args.value = 0
    /\ last.err = "Price must be greater than 0"
    /\ ~providers[last.sender].isActive

(* the bytes the Active deals of provider p hold *)
RECURSIVE SumFileSize(_)
SumFileSize(ids) ==
    IF ids = {} THEN 0
    ELSE LET i == CHOOSE j \in ids : TRUE
         IN  deals[i].fileSize + SumFileSize(ids \ {i})

ActiveDealsOf(p) == {i \in DOMAIN deals : deals[i].isActive /\ deals[i].provider = p}

(* C19: in every reachable state each provider's usedCapacity is the sum of
   fileSize over its Active deals: the reservation is made once at creation,
   released once at completion or cancellation, and the release never
   underflows. *)
C19_UsedIsSumOfActiveDeals ==
    /\ \A p \in DOMAIN providers :
          providers[p].usedCapacity = SumFileSize(ActiveDealsOf(p))
    /\ \A i \in DOMAIN deals :
          deals[i].isActive => providers[deals[i].provider].usedCapacity >= deals[i].fileSize

(* a second deal was created on the capacity the first one released *)
C19_Witness ==
    /\ last.op = "createDeal" /\ last.ok
    /\ \E i \in DOMAIN deals :
          /\ Status(deals[i]) = "Completed"
          /\ deals[i].provider = last.args.provider
          /\ deals[i].fileSize = providers[last.args.provider].totalCapacity
    /\ providers[last.args.provider].usedCapacity = last.args.amount

(* C18: deactivateProvider fails and leaves the provider active unless its
   usedCapacity is 0; so in every reachable state a provider that is not
   active has usedCapacity 0, in the marketplace and in the storage network
   alike. *)
C18_DeactivateOnlyWhenUnused ==
    [][ /\ (last'.op = "deactivateProvider"
              /\ providers[last'.sender].usedCapacity # 0) =>
                /\ Rejected
                /\ providers'[last'.sender].isActive = providers[last'.sender].isActive
        /\ \A p \in DOMAIN providers :
              ~providers'[p].isActive => providers'[p].usedCapacity = 0
        /\ (netLast'.op = "deactivateProvider" /\ netLast' # netLast
              /\ storageProviders[netLast'.sender].usedStorage # 0) =>
                storageProviders' = storageProviders
        /\ \A a \in DOMAIN storageProviders :
              ~storageProviders'[a].isActive => storageProviders'[a].usedStorage = 0
      ]_vars

(* a provider with a running deal tried to deactivate and was refused *)
C18_Witness ==
    /\ last.op = "deactivateProvider" /\ ~last.ok
    /\ last.err = "Cannot deactivate with active deals"
    /\ providers[last.sender].isActive
    /\ providers[last.sender].usedCapacity > 0

(* StorageNetwork: no file is ever distributed, since at most one provider
   is ever active *)
NetworkNeverStores ==
    /\ Len(activeProviders) <= 1
    /\ \A a \in DOMAIN storageProviders : storageProviders[a].usedStorage = 0
    /\ \A f \in DOMAIN distributedFiles : ~distributedFiles[f].isActive

(***************************************************************************)
(*          Properties of the in-process provider table and upload         *)
(***************************************************************************)
(* the provider objects the table holds *)
TableObjects == {svcProviders[k].obj : k \in DOMAIN svcProviders}

(* C16: register by an id that already has an active registration fails
   and leaves the existing provider record (totalCapacity, usedCapacity,
   uploadCount) unchanged: a registration step never replaces or alters
   the record of an address that was active in the table. *)
C16_DuplicateRegistrationRejected ==
    [][ Len(svcObjects') > Len(svcObjects) =>
            \A k \in DOMAIN svcProviders :
                svcObjects[svcProviders[k].obj].isActive =>
                    /\ svcProviders'[k] = svcProviders[k]
                    /\ svcObjects'[svcProviders[k].obj] = svcObjects[svcProviders[k].obj]
      ]_vars

(* what upload u has charged to provider object r for its chunks 1..i *)
RECURSIVE ChargedBytes(_, _, _)
ChargedBytes(up, r, i) ==
    IF i = 0 THEN 0
    ELSE ChargedBytes(up, r, i - 1)
            + (IF up.providers[((i - 1) % Len(up.providers)) + 1] = r
               THEN up.sizes[i] ELSE 0)

RECURSIVE ChargedCount(_, _, _)
ChargedCount(up, r, i) ==
    IF i = 0 THEN 0
    ELSE ChargedCount(up, r, i - 1)
            + (IF up.providers[((i - 1) % Len(up.providers)) + 1] = r THEN 1 ELSE 0)

(* C13: when a whole-file placement fails at chunk k, no reservation made
   for chunks 1..k-1 remains: in the failing step every provider gives back
   the bytes and the upload count the placement had charged to it, and the
   chunk table no longer holds the chunks it had recorded. *)
C13_FailedPlacementRolledBack ==
    [][ \A u \in UploadIds :
            (svcUploads[u].pc = "uploading" /\ svcUploads'[u].pc = "failed") =>
                LET up == svcUploads[u]
                IN  /\ \A r \in DOMAIN svcObjects :
                          /\ svcObjects'[r].usedStorage
                                = svcObjects[r].usedStorage - ChargedBytes(up, r, up.i)
                          /\ svcObjects'[r].uploadCount
                                = svcObjects[r].uploadCount - ChargedCount(up, r, up.i)
                    /\ \A j \in 1..up.i :
                          svcChunks'[<<up.content, j>>] # svcChunks[<<up.content, j>>]
      ]_vars

(* the providers recorded as holding chunk h *)
ChunkHolders(h) == {svcChunks[h].provider} \ {""}

(* C14: after a successful placement with redundancy R every chunk of the
   file is held by R pairwise distinct providers. *)
C14_ChunksReplicated ==
    \A u \in UploadIds :
        svcUploads[u].pc = "done" =>
            \A k \in 1..Len(svcUploads[u].sizes) :
                Cardinality(ChunkHolders(<<svcUploads[u].content, k>>))
                    = svcUploads[u].redundancy

(* the order of provider ids *)
AddressOrder == <<"p1", "p2">>
AddressIndex(a) == CHOOSE n \in DOMAIN AddressOrder : AddressOrder[n] = a

(* r is an active provider of the table that can take size more bytes *)
Eligible(r, size) ==
    r \in TableObjects /\ svcObjects[r].isActive /\ FreeStorage(r) >= size

(* C15: the provider charged for a chunk is an active provider with free
   capacity >= the chunk size whose score, on the state the previous chunk
   left, is the highest among such providers, ties going to the smallest
   provider id; and a placement does not fail for want of a provider while
   an active provider has room for the chunk. *)
C15_BestProviderPerChunk ==
    [][ \A u \in UploadIds :
            LET up == svcUploads[u]
                k == up.i + 1
            IN  /\ svcUploads'[u].i = k =>
                    LET r == up.providers[(up.i % Len(up.providers)) + 1]
                    IN  /\ Eligible(r, up.sizes[k])
                        /\ \A o \in TableObjects \ {r} :
                              Eligible(o, up.sizes[k]) =>
                                  /\ ~HigherScore(o, r)
                                  /\ ~HigherScore(r, o) =>
                                        AddressIndex(svcObjects[r].address)
                                            < AddressIndex(svcObjects[o].address)
                /\ (up.pc = "uploading" /\ svcUploads'[u].pc = "failed"
                        /\ up.providers = <<>>) =>
                    ~\E o \in TableObjects : Eligible(o, up.sizes[k])
      ]_vars

(***************************************************************************)
(*                     Properties of file splitting                        *)
(***************************************************************************)
(* C20: splitting a file of size S > 0 with chunk size C > 0 yields exactly
   ceil(S/C) chunks, every chunk except possibly the last has size exactly
   C, the last has size between 1 and C, and the sizes sum exactly to S. *)
C20_SplitSizes ==
    (splitCall.pc = "done" /\ splitCall.fileSize > 0 /\ splitCall.chunkSize > 0) =>
        LET S == splitCall.fileSize
            C == splitCall.chunkSize
            chunks == splitCall.chunks
            n == Len(chunks)
        IN  /\ n = Ceil(S, C)
            /\ \A k \in 1..(n - 1) : chunks[k] = C
            /\ 1 <= chunks[n] /\ chunks[n] <= C
            /\ SumSizes(chunks) = S
            /\ chunks = SplitFrom(0, S, C)

C20_Witness ==
    /\ splitCall.pc = "done"
    /\ Len(splitCall.chunks) >= 2
    /\ splitCall.chunks[Len(splitCall.chunks)] < splitCall.chunkSize

(***************************************************************************)
(*              Properties of calls made during a transfer                 *)
(***************************************************************************)
(* while a call is suspended in a transfer, what it changed is already in
   the ledger: the deal is recorded (created and Active, or cancelled), the
   capacity of every provider is the sum of its Active deals, and no deal
   has two transfers in flight *)
EffectsBeforeTransfer ==
    /\ \A k \in DOMAIN callStack :
          LET frame == callStack[k]
              deal == deals[frame.dealId]
          IN  /\ frame.op = "createDeal" =>
                    /\ frame.dealId < dealIdCounter
                    /\ deal.isActive /\ deal.renter = frame.call.sender
                    /\ entered
              /\ frame.op = "cancelDeal" => ~deal.isActive
              /\ \A j \in DOMAIN callStack : j # k => callStack[j].dealId # frame.dealId
    /\ \A p \in DOMAIN providers :
          providers[p].usedCapacity = SumFileSize(ActiveDealsOf(p))
    /\ balance >= 0

(* a transfer that returns changes no deal and no provider; a createDeal
   attempted while one is in a transfer is rejected; a createDeal that ends
   has paid the provider once and refunded the excess once *)
TransferFrame ==
    /\ (Len(callStack') <= Len(callStack) /\ callStack' # callStack /\ last'.ok) =>
            UNCHANGED <<providers, deals, dealIdCounter>>
    /\ (entered /\ callStack' = callStack /\ last'.op = "createDeal") =>
            ~last'.ok /\ UNCHANGED marketVars
    /\ (callStack # <<>> /\ callStack' = Tail(callStack)
            /\ last'.ok /\ last'.op = "createDeal") =>
            LET deal == deals[last'.args.dealId]
                totalPrice == TotalPrice(deal.fileSize, deal.pricePerByte, deal.duration)
                sent == last'.transfers
            IN  /\ sent[1] = [to |-> deal.provider,
                              amount |-> totalPrice - PlatformFeeOf(totalPrice, platformFee)]
                /\ IF last'.args.value > totalPrice
                   THEN /\ Len(sent) = 2
                        /\ sent[2] = [to |-> deal.renter,
                                      amount |-> last'.args.value - totalPrice]
                   ELSE Len(sent) = 1

(* C12: in createDeal and cancelDeal every state change is made before the
   first value transfer, and a recipient that calls back into the
   marketplace during the transfer can neither get capacity reserved twice
   for one payment nor get the provider payment or the refund of a deal
   paid twice. *)
C12_EffectsBeforeInteractions == []EffectsBeforeTransfer /\ [][TransferFrame]_vars

(* the provider, while being paid for a deal, called back into the
   marketplace and the call succeeded *)
C12_Witness ==
    /\ callStack # <<>>
    /\ Head(callStack).op = "createDeal"
    /\ last.ok /\ last.op = "updateProviderCapacity"
    /\ last.sender = Head(callStack).to

(* C21: split fails with a validation error, producing no chunks, when
   chunkSize <= 0 or the input is empty: a call with such arguments never
   enters the loop and never returns a result. *)
C21_SplitValidates ==
    (splitCall.chunkSize <= 0 \/ splitCall.fileSize = 0) =>
        /\ splitCall.pc \notin {"loop", "done"}
        /\ splitCall.chunks = <<>>

(* C22: for every recorded file, the sizes of its recorded chunks sum
   exactly to the file's totalSize. *)
C22_ChunkSizesSumToTotal ==
    \A f \in DOMAIN svcFiles :
        svcFiles[f].isActive => SumSizes(svcFiles[f].chunks) = svcFiles[f].totalSize

(***************************************************************************)
(*                      Properties of StorageNFT                           *)
(***************************************************************************)
(* the minted tokens *)
MintedTokens == {t \in TokenIds : t < tokenIdCounter}

(* C23: recording a file whose content hash equals that of an already
   recorded active file is rejected and changes nothing, whoever submits it
   and whichever token id the earlier file received, token id 0 included. *)
C23_DuplicateFileRejected ==
    [][ (nftLast'.op = "mintFileStorage"
            /\ \E t \in MintedTokens :
                  /\ fileMetadata[t].isActive
                  /\ fileMetadata[t].ipfsHash = nftLast'.args.ipfsHash) =>
            ~nftLast'.ok /\ UNCHANGED nftStateVars
      ]_vars

(* C24: mintFileStorage charges exactly size * storagePricePerByte *
   redundancyFactor: a mint that succeeds was paid at least that, refunds
   the excess to the sender and raises the contract's balance by exactly the
   cost; a mint paid less fails and mints no token. *)
C24_MintChargesStorageCost ==
    [][ nftLast'.op = "mintFileStorage" =>
            LET a == nftLast'.args
                cost == a.size * storagePricePerByte * a.redundancyFactor
            IN  /\ nftLast'.ok =>
                      /\ a.value >= cost
                      /\ nftBalance' = nftBalance + cost
                      /\ nftLast'.transfers =
                            IF a.value > cost
                            THEN <<[to |-> nftLast'.sender, amount |-> a.value - cost]>>
                            ELSE <<>>
                      /\ tokenIdCounter' = tokenIdCounter + 1
                      /\ fileMetadata'[a.tokenId].storagePrice = cost
                /\ a.value < cost => ~nftLast'.ok /\ UNCHANGED nftStateVars
                /\ (a.value >= cost /\ a.name # "" /\ a.size > 0 /\ a.redundancyFactor > 0
                        /\ ipfsToToken[a.ipfsHash] = 0) => nftLast'.ok
      ]_vars

(* a mint at the raised price, overpaid by one unit, was refunded that unit *)
C24_Witness ==
    /\ nftLast.op = "mintFileStorage" /\ nftLast.ok
    /\ storagePricePerByte > InitialStoragePrice
    /\ nftLast.args.redundancyFactor > 1
    /\ nftLast.transfers = <<[to |-> nftLast.sender, amount |-> 1]>>
    /\ nftBalance > 0

(* C25: token ids are 0, 1, 2, ... in mint order, getTotalFiles is the
   number of mints, each token is owned by its minter, its metadata is what
   was given at mint with uploader = minter, and getFileByIPFS(hash) returns
   the token minted for that hash. *)
C25_MintBookkeeping ==
    /\ \A t \in TokenIds :
          IF t \in MintedTokens
          THEN /\ tokenOwner[t] # ZeroAddr
               /\ tokenOwner[t] = fileMetadata[t].uploader
               /\ ipfsToToken[fileMetadata[t].ipfsHash] = t
          ELSE tokenOwner[t] = ZeroAddr /\ fileMetadata[t] = ZeroFileMetadata
    /\ (nftLast.op = "mintFileStorage" /\ nftLast.ok) =>
          LET a == nftLast.args
              m == fileMetadata[a.tokenId]
          IN  /\ a.tokenId = tokenIdCounter - 1
              /\ m.name = a.name /\ m.size = a.size /\ m.mimeType = a.mimeType
              /\ m.ipfsHash = a.ipfsHash /\ m.uploader = nftLast.sender

(***************************************************************************)
(*            NetworkAnalyticsService (unnamed/part_012)                   *)
(* A history entry carries its arrival number in place of Date.now().      *)
(***************************************************************************)
TransferHistoryLimit == 100
PerformanceHistoryLimit == 60

MaxTicks == 2
MaxOverflow == 2

Max(a, b) == IF a >= b THEN a ELSE b
Abs(a) == IF a < 0 THEN 0 - a ELSE a

RECURSIVE GCD(_, _)
GCD(a, b) == IF b = 0 THEN a ELSE GCD(b, a % b)
LCM(a, b) == (a \div GCD(a, b)) * b

(* Math.round(n / d) for n >= 0, d > 0: halves round up *)
RoundDiv(n, d) == (2 * n + d) \div (2 * d)

(* Array.prototype.slice(-k) keeping the first k entries instead *)
SliceLast_KeepsOldest(seq, k) ==
    IF Len(seq) <= k THEN seq ELSE SubSeq(seq, 1, k)

(* Array.prototype.slice(-k) *)
SliceLast(seq, k) ==
    IF Len(seq) <= k THEN seq ELSE SubSeq(seq, Len(seq) - k + 1, Len(seq))

RECURSIVE SumField(_, _)
SumField(history, field) ==
    IF history = <<>> THEN 0
    ELSE Head(history)[field] + SumField(Tail(history), field)

(* the registry snapshots getNetworkStats can return: storage is summed    *)
(* over the online devices only                                            *)
DeviceCounts == {0, 1, 12}
StorageTotals == {<<0, 0>>, <<10, 7>>, <<10, 10>>}
Snapshots ==
    {s \in [totalDevices : DeviceCounts, onlineDevices : 0..12,
            totalStorage : {0, 10}, usedStorage : {0, 7, 10},
            onChainDevices : 0..12] :
        /\ s.onlineDevices \in {0, s.totalDevices}
        /\ s.onChainDevices \in {0, s.totalDevices}
        /\ <<s.totalStorage, s.usedStorage>> \in StorageTotals
        /\ s.onlineDevices = 0 => s.totalStorage = 0}

(* the three Math.random() draws of one tick, in tenths *)
RandomDraws == {<<5, 5, 5>>, <<5, 9, 0>>}

(* recordTransfer *)
RecordTransfer(success) ==
    /\ transfersRecorded' = transfersRecorded + 1
    /\ transferHistory' =
           SliceLast(Append(transferHistory,
                            [seq |-> transfersRecorded + 1, success |-> success]),
                     TransferHistoryLimit)
    /\ statsLast' = [op |-> "recordTransfer", stats |-> statsLast.stats]
    /\ UNCHANGED <<performanceHistory, currentStats, samplesTaken>>

(* the sample updatePerformanceMetrics measures for deviceCount devices *)
PerformanceSample(deviceCount, draws) ==
    LET baseUploadSpeed == Min(200, 50 + deviceCount * 25)
        baseDownloadSpeed == Min(250, 80 + deviceCount * 28)
        baseLatency == Max(20, 80 - deviceCount * 5)
    IN  [seq |-> samplesTaken + 1,
         uploadSpeed |-> Max(1, baseUploadSpeed + (draws[1] - 5) * 4),
         downloadSpeed |-> Max(1, baseDownloadSpeed + (draws[2] - 5) * 5),
         latency |-> Max(10, baseLatency + (draws[3] - 5) * 2)]

(* updatePerformanceMetrics: the new history and performance record *)
UpdatedHistory(deviceCount, draws) ==
    SliceLast(Append(performanceHistory, PerformanceSample(deviceCount, draws)),
              PerformanceHistoryLimit)

UpdatedPerformance(history) ==
    [avgUploadSpeed |-> RoundDiv(SumField(history, "uploadSpeed"), Len(history)),
     avgDownloadSpeed |-> RoundDiv(SumField(history, "downloadSpeed"), Len(history)),
     networkLatency |-> RoundDiv(SumField(history, "latency"), Len(history)),
     successRate |-> Max(950, 1000 - (100 - currentStats.networkHealth) * 5),
     totalTransfers |-> Len(transferHistory),
     failedTransfers |-> Cardinality({i \in DOMAIN transferHistory :
                                          ~transferHistory[i].success})]

(* calculateNetworkHealth: the five weighted factors over one denominator  *)
HealthDenominator(stats) ==
    LCM(LCM(Max(1, stats.totalDevices), 10 * Max(1, stats.totalStorage)), 200000)

HealthNumerator(stats, performance) ==
    LET d == HealthDenominator(stats)
        devices == Max(1, stats.totalDevices)
        storage == Max(1, stats.totalStorage)
        used == Min(stats.usedStorage, stats.totalStorage)
        (* 1 - |0.7 - utilization|, over 10 * storage *)
        utilization ==
            IF stats.totalStorage > 0
            THEN Max(0, 10 * storage - Abs(7 * storage - 10 * used))
            ELSE 3 * storage
        (* min(1, successRate/100 * min(1, avgDownloadSpeed/20)), over 200000 *)
        performanceScore ==
            Min(200000, performance.successRate * Min(200, performance.avgDownloadSpeed))
        verified == IF stats.totalDevices > 0 THEN stats.onChainDevices ELSE 0
        (* max(0, 1 - (networkLatency - 20)/100), over 100 *)
        latencyScore == Max(0, 120 - performance.networkLatency)
    IN    25 * stats.onlineDevices * (d \div devices)
        + 20 * utilization * (d \div (10 * storage))
        + 25 * performanceScore * (d \div 200000)
        + 15 * verified * (d \div devices)
        + 15 * latencyScore * (d \div 100)

(* the return of calculateNetworkHealth without its final min/max *)
ClampScore_None(score) == score

(* Math.min(100, Math.max(0, score)) *)
ClampScore(score) == Min(100, Max(0, score))

CalculateNetworkHealth(stats, performance) ==
    ClampScore(RoundDiv(HealthNumerator(stats, performance), HealthDenominator(stats)))

(* updateNetworkStats: one aggregator tick *)
UpdateNetworkStats(stats, draws) ==
    LET history == UpdatedHistory(stats.totalDevices, draws)
        performance == UpdatedPerformance(history)
    IN  /\ samplesTaken' = samplesTaken + 1
        /\ performanceHistory' = history
        /\ currentStats' =
               [networkHealth |-> CalculateNetworkHealth(stats, performance),
                performance |-> performance,
                totalStorage |-> stats.totalStorage,
                usedStorage |-> stats.usedStorage,
                onlineDevices |-> stats.onlineDevices,
                onChainDevices |-> stats.onChainDevices]
        /\ statsLast' = [op |-> "updateNetworkStats", stats |-> stats]
        /\ UNCHANGED <<transferHistory, transfersRecorded>>

AnalyticsStep(A) ==
    A /\ UNCHANGED <<discoveryVars, ledgerVars, svcVars, devVars, netVars, splitCall, reentryVars, nftVars>>

(* a few ticks over every snapshot and draw *)
NextHealth ==
    \/ AnalyticsStep(/\ samplesTaken < MaxTicks
                     /\ \E s \in Snapshots, r \in RandomDraws : UpdateNetworkStats(s, r))
    \/ AnalyticsStep(/\ transfersRecorded < MaxTicks
                     /\ \E ok \in BOOLEAN : RecordTransfer(ok))

SpecHealth == Init /\ [][NextHealth]_vars

(***************************************************************************)
(* C26: when the registry snapshot of a tick contains zero providers, the  *)
(* health score computed by that tick is exactly 0, whatever performance,  *)
(* success rate and latency are stored.                                    *)
(***************************************************************************)
C26_ZeroProvidersScoreZero ==
    (statsLast.op = "updateNetworkStats" /\ statsLast.stats.totalDevices = 0)
        => currentStats.networkHealth = 0

(* the snapshot and performance for which every factor is at its maximum *)
MaximalInputs(stats, performance) ==
    /\ stats.totalDevices > 0
    /\ stats.onlineDevices = stats.totalDevices
    /\ stats.onChainDevices = stats.totalDevices
    /\ stats.totalStorage > 0
    /\ 10 * stats.usedStorage = 7 * stats.totalStorage
    /\ performance.successRate = 1000
    /\ performance.avgDownloadSpeed >= 200
    /\ performance.networkLatency <= 20

(***************************************************************************)
(* C27: for every registry snapshot and performance history the health     *)
(* score computed by a tick lies in [0, 100], and it is 100 when all       *)
(* providers are online and verified, utilization is 70%, the success rate *)
(* is 100% at full throughput and latency is at the minimum.               *)
(***************************************************************************)
C27_HealthScoreRange ==
    /\ currentStats.networkHealth \in 0..100
    /\ (/\ statsLast.op = "updateNetworkStats"
        /\ MaximalInputs(statsLast.stats, currentStats.performance))
           => currentStats.networkHealth = 100

C27_Witness ==
    /\ statsLast.op = "updateNetworkStats"
    /\ MaximalInputs(statsLast.stats, currentStats.performance)
    /\ currentStats.performance.networkLatency < 20
    /\ currentStats.networkHealth = 100

(* long runs that fill both buffers: one device online, no variance in the *)
(* samples, every third transfer failing                                   *)
SteadySnapshot ==
    [totalDevices |-> 1, onlineDevices |-> 1, totalStorage |-> 10,
     usedStorage |-> 7, onChainDevices |-> 1]

OutcomeOf(k) == k % 3 # 0

NextHistory ==
    \/ AnalyticsStep(/\ transfersRecorded < TransferHistoryLimit + MaxOverflow
                     /\ RecordTransfer(OutcomeOf(transfersRecorded + 1)))
    \/ AnalyticsStep(/\ samplesTaken < PerformanceHistoryLimit + MaxOverflow
                     /\ UpdateNetworkStats(SteadySnapshot, <<5, 5, 5>>))

SpecHistory == Init /\ [][NextHistory]_vars

(***************************************************************************)
(* C28: after n recordTransfer calls and m aggregator ticks in any order,  *)
(* the transfer history holds exactly the last min(n, 100) recorded        *)
(* outcomes in arrival order and the performance history exactly the last  *)
(* min(m, 60) samples; neither buffer exceeds its bound.                   *)
(***************************************************************************)
C28_HistoriesKeepMostRecent ==
    LET kept == Min(transfersRecorded, TransferHistoryLimit)
        sampled == Min(samplesTaken, PerformanceHistoryLimit)
    IN  /\ Len(transferHistory) = kept
        /\ \A i \in 1..kept :
               transferHistory[i] =
                   [seq |-> transfersRecorded - kept + i,
                    success |-> OutcomeOf(transfersRecorded - kept + i)]
        /\ Len(performanceHistory) = sampled
        /\ \A i \in 1..sampled :
               performanceHistory[i].seq = samplesTaken - sampled + i
        /\ Len(transferHistory) <= TransferHistoryLimit
        /\ Len(performanceHistory) <= PerformanceHistoryLimit

C28_Witness ==
    /\ transfersRecorded > TransferHistoryLimit
    /\ samplesTaken > PerformanceHistoryLimit
    /\ Len(transferHistory) = TransferHistoryLimit
    /\ Len(performanceHistory) = PerformanceHistoryLimit
    /\ transferHistory[1].seq = transfersRecorded - TransferHistoryLimit + 1
    /\ performanceHistory[1].seq = samplesTaken - PerformanceHistoryLimit + 1

(***************************************************************************)
(*        DestoreToken (unnamed/part_002) called by token holders          *)
(* block.timestamp is counted in units of 30 days.                         *)
(***************************************************************************)
STORAGE_REWARD_RATE == 2
TokenCallers == {"n1", "n2"}
TokenAmounts == {MIN_STORAGE_CONTRIBUTION - 1, MIN_STORAGE_CONTRIBUTION,
                 SmallContributionLimit, SmallContributionLimit + 1,
                 MAX_STORAGE_CONTRIBUTION, MAX_STORAGE_CONTRIBUTION + 1}

networkOnlyVars == <<storageProviders, activeProviders, nextTokenId, netFileChunks,
                     distributedFiles>>

(* contributeStorage *)
TokenContributeStorage(sender, storageAmount) ==
    LET err == ContributeStorageError(sender, storageAmount) IN
    IF err # "" THEN NetRevert("contributeStorage", sender, storageAmount, "", err)
    ELSE /\ isStorageProvider' = [isStorageProvider EXCEPT ![sender] = TRUE]
         /\ storageContributed' = [storageContributed EXCEPT ![sender] = @ + storageAmount]
         /\ lastRewardClaim' = [lastRewardClaim EXCEPT ![sender] = now]
         /\ tokenBalance' = [tokenBalance EXCEPT ![sender] = @ + ImmediateReward(storageAmount)]
         /\ netLast' = NetCallRecord("contributeStorage", sender, storageAmount, "", "")
         /\ UNCHANGED networkOnlyVars

ClaimRewardsError(sender) ==
    IF ~isStorageProvider[sender] THEN "Not a storage provider"
    ELSE IF ~(storageContributed[sender] > 0) THEN "No storage contributed"
    ELSE ""

(* claimRewards called in a transaction of its own *)
ClaimRewards(sender) ==
    LET err == ClaimRewardsError(sender)
        monthsElapsed == now - lastRewardClaim[sender]
        reward == storageContributed[sender] * STORAGE_REWARD_RATE * monthsElapsed
    IN  IF err # "" THEN NetRevert("claimRewards", sender, 0, "", err)
        ELSE /\ IF monthsElapsed > 0 /\ reward > 0
                THEN /\ tokenBalance' = [tokenBalance EXCEPT ![sender] = @ + reward]
                     /\ lastRewardClaim' = [lastRewardClaim EXCEPT ![sender] = now]
                ELSE UNCHANGED <<tokenBalance, lastRewardClaim>>
             /\ netLast' = NetCallRecord("claimRewards", sender, 0, "", "")
             /\ UNCHANGED <<networkOnlyVars, storageContributed, isStorageProvider>>

(* removeStorage: its call of claimRewards meets the guard it has entered *)
RemoveStorageError(sender, storageAmount) ==
    IF ~(storageContributed[sender] >= storageAmount)
    THEN "Insufficient storage contributed"
    ELSE "ReentrancyGuardReentrantCall"

RemoveStorage(sender, storageAmount) ==
    NetRevert("removeStorage", sender, storageAmount, "", RemoveStorageError(sender, storageAmount))

(* a block is mined 30 days later *)
TokenTime ==
    /\ now < MaxTime
    /\ now' = now + 1
    /\ netLast' = NetCallRecord("time", ZeroAddr, 0, "", "")
    /\ UNCHANGED netStateVars

TokenStep(A) ==
    netLast.ok /\ A
        /\ UNCHANGED <<discoveryVars, providers, deals, dealIdCounter, platformFee, paused, balance, last,
                       svcVars, devVars, splitCall, reentryVars, nftVars, analyticsVars>>

NextToken ==
    \/ TokenStep(\E s \in TokenCallers, a \in TokenAmounts :
                    TokenContributeStorage(s, a) /\ UNCHANGED now)
    \/ TokenStep(\E s \in TokenCallers : ClaimRewards(s) /\ UNCHANGED now)
    \/ TokenStep(\E s \in TokenCallers, a \in TokenAmounts :
                    RemoveStorage(s, a) /\ UNCHANGED now)
    \/ TokenStep(TokenTime)

SpecToken == Init /\ [][NextToken]_vars

(***************************************************************************)
(* C29: contributeStorage(amount) with 10 GB <= amount <= 1 TB succeeds    *)
(* for every caller, whether or not the caller has contributed before: it  *)
(* adds amount to the caller's storageContributed and mints 10 tokens when *)
(* amount <= 20 GB and 0.5 token per GB above; an amount outside the range *)
(* is rejected and changes nothing.                                        *)
(***************************************************************************)
C29_ContributeStorageSucceeds ==
    [][netLast'.op = "contributeStorage" =>
         LET s == netLast'.sender
             a == netLast'.amount
         IN  IF a >= MIN_STORAGE_CONTRIBUTION /\ a <= MAX_STORAGE_CONTRIBUTION
             THEN /\ netLast'.ok
                  /\ storageContributed'[s] = storageContributed[s] + a
                  /\ tokenBalance'[s] =
                         tokenBalance[s] + (IF a <= SmallContributionLimit
                                            THEN SmallContributionReward ELSE a)
             ELSE ~netLast'.ok /\ UNCHANGED netStateVars]_vars

(***************************************************************************)
(* C30: no deal stays Active forever: in every reachable state in which an *)
(* Active deal's endTime has passed, completeDeal by its renter and by its *)
(* provider is accepted, so the deal can always be brought to a terminal   *)
(* state and its reserved capacity released.                               *)
(***************************************************************************)
C30_ExpiredDealCompletable ==
    \A i \in DOMAIN deals :
        (deals[i].isActive /\ now >= deals[i].endTime) =>
            /\ CompleteDealError(deals[i].renter, i) = ""
            /\ CompleteDealError(deals[i].provider, i) = ""

(***************************************************************************)
(* C31: a deal's startTime is its creation timestamp and time never goes   *)
(* back, so now < startTime holds in no reachable state: no cancelDeal     *)
(* call succeeds and no deal is ever Cancelled.                            *)
(***************************************************************************)
C31_CancelNeverSucceeds ==
    /\ \A i \in DOMAIN deals :
           /\ deals[i].renter # ZeroAddr => deals[i].startTime <= now
           /\ Status(deals[i]) # "Cancelled"
    /\ ~(last.op = "cancelDeal" /\ last.ok)

(* the renter's cancelDeal in the very block that created the deal is refused *)
C31_Witness ==
    /\ last.op = "cancelDeal" /\ ~last.ok
    /\ last.err = "Deal already started"
    /\ last.sender = deals[last.args.dealId].renter
    /\ deals[last.args.dealId].isActive
    /\ now = deals[last.args.dealId].startTime

(***************************************************************************)
(* C32: the reputation of a registered provider changes only when          *)
(* completeDeal succeeds on one of its deals; submitProof, createDeal,     *)
(* capacity and price updates, and a deactivation followed by a new        *)
(* registration leave it as it was.  (A profile that was never registered  *)
(* has price 0; its first registration creates the reputation.)            *)
(***************************************************************************)
C32_ReputationOnlyAtCompletion ==
    [][\A p \in DOMAIN providers :
          (/\ providers[p].pricePerByte # 0
           /\ providers'[p].reputation # providers[p].reputation) =>
              /\ last'.op = "completeDeal" /\ last'.ok
              /\ deals[last'.args.dealId].provider = p]_vars

(***************************************************************************)
(* C33: registerStorageProvider succeeds for every caller without an       *)
(* active registration that offers between 10 GB and 1 TB, however many    *)
(* providers registered before: it takes the next NFT id, records the      *)
(* caller as active with usedStorage 0 and uploadCount 0 and appends it to *)
(* activeProviders.                                                        *)
(***************************************************************************)
C33_RegistrationSucceeds ==
    [][(/\ netLast'.op = "registerStorageProvider"
        /\ ~storageProviders[netLast'.sender].isActive
        /\ netLast'.amount >= MinStorageCapacity
        /\ netLast'.amount <= MAX_STORAGE_CONTRIBUTION) =>
           /\ netLast'.ok
           /\ nextTokenId' = nextTokenId + 1
           /\ storageProviders'[netLast'.sender] =
                  [totalStorage |-> netLast'.amount, usedStorage |-> 0, uploadCount |-> 0,
                   isActive |-> TRUE, nftTokenId |-> nextTokenId]
           /\ activeProviders' = Append(activeProviders, netLast'.sender)]_vars

(***************************************************************************)
(* C34: removeStorage(amount) with amount <= the caller's storageContributed *)
(* succeeds: storageContributed drops by exactly amount and                *)
(* isStorageProvider becomes false exactly when nothing remains; with a    *)
(* larger amount the call fails and changes nothing.                       *)
(***************************************************************************)
C34_RemoveStorageSucceeds ==
    [][netLast'.op = "removeStorage" =>
         LET s == netLast'.sender
             a == netLast'.amount
         IN  IF a <= storageContributed[s]
             THEN /\ netLast'.ok
                  /\ storageContributed'[s] = storageContributed[s] - a
                  /\ storageContributed'[s] = 0 => ~isStorageProvider'[s]
                  /\ storageContributed'[s] > 0 =>
                         isStorageProvider'[s] = isStorageProvider[s]
             ELSE ~netLast'.ok /\ UNCHANGED netStateVars]_vars

(* how often an address occurs in activeProviders *)
Occurrences(a) == Cardinality({k \in DOMAIN activeProviders : activeProviders[k] = a})

(***************************************************************************)
(* C35: in every reachable state of StorageNetwork an address occurs in    *)
(* activeProviders exactly once when its provider record is active and not *)
(* at all otherwise.                                                       *)
(***************************************************************************)
C35_ActiveProvidersListed ==
    \A a \in NetAddresses :
        Occurrences(a) = IF storageProviders[a].isActive THEN 1 ELSE 0

(* a provider that had registered has deactivated and left the list *)
C35_Witness ==
    /\ netLast.op = "deactivateProvider" /\ netLast.ok
    /\ storageProviders[netLast.sender].totalStorage > 0
    /\ ~storageProviders[netLast.sender].isActive
    /\ Occurrences(netLast.sender) = 0

(***************************************************************************)
(*            NetworkDiscoveryServer (unnamed/part_012)                    *)
(***************************************************************************)
PeerTimeout == 3
MaxDiscoveryTime == 4
MaxTimers == 2

MessageTypes == {"announce", "ping", "response", "pong"}
MessageRoutes == {"channel", "storage"}

(* a BroadcastChannel that accepts messages after close() *)
PostMessageThrows_Never(closed) == FALSE

(* BroadcastChannel.postMessage throws InvalidStateError once the channel  *)
(* has been closed                                                         *)
PostMessageThrows(closed) == closed

(* cleanupOldPeers *)
CleanedPeers ==
    [d \in DOMAIN discoveredPeers |->
        IF discoveredPeers[d].known /\ discoveryNow - discoveredPeers[d].lastSeen > PeerTimeout
        THEN [discoveredPeers[d] EXCEPT !.isOnline = FALSE]
        ELSE discoveredPeers[d]]

(***************************************************************************)
(* startDiscovery.  announcePresence posts to the channel before anything  *)
(* else is done; when that throws, the exception leaves startDiscovery     *)
(* with isRunning set and no timer created.  discoverPeersViaLocalStorage  *)
(* then reads the announcement this device has just stored and skips it.   *)
(***************************************************************************)
StartDiscovery ==
    /\ announceTimers < MaxTimers
    /\ discoveryStopped' = FALSE
    /\ IF isRunning
       THEN /\ discoveryLast' = DiscoveryRecord("startDiscovery", OwnDeviceId, FALSE, FALSE, FALSE)
            /\ UNCHANGED <<isRunning, announceTimers>>
       ELSE /\ isRunning' = TRUE
            /\ IF PostMessageThrows(channelClosed)
               THEN /\ discoveryLast' =
                           DiscoveryRecord("startDiscovery", OwnDeviceId, FALSE, FALSE, TRUE)
                    /\ UNCHANGED announceTimers
               ELSE /\ announceTimers' = announceTimers + 1
                    /\ discoveryLast' =
                           DiscoveryRecord("startDiscovery", OwnDeviceId, TRUE, FALSE, FALSE)
    /\ UNCHANGED <<channelClosed, discoveredPeers, discoveryNow>>

(* stopDiscovery: the interval is not cleared *)
StopDiscovery ==
    /\ isRunning' = FALSE
    /\ channelClosed' = TRUE
    /\ discoveryStopped' = TRUE
    /\ discoveryLast' = DiscoveryRecord("stopDiscovery", OwnDeviceId, FALSE, FALSE, FALSE)
    /\ UNCHANGED <<announceTimers, discoveredPeers, discoveryNow>>

(* one firing of an interval: announcePresence, then cleanupOldPeers *)
TimerFires ==
    /\ announceTimers > 0
    /\ IF PostMessageThrows(channelClosed)
       THEN /\ discoveryLast' = DiscoveryRecord("timer", OwnDeviceId, FALSE, FALSE, TRUE)
            /\ UNCHANGED discoveredPeers
       ELSE /\ discoveredPeers' = CleanedPeers
            /\ discoveryLast' = DiscoveryRecord("timer", OwnDeviceId, TRUE, TRUE, FALSE)
    /\ UNCHANGED <<isRunning, channelClosed, announceTimers, discoveryNow, discoveryStopped>>

(***************************************************************************)
(* handleDiscoveryMessage for a message that arrives on the channel (while *)
(* it is open) or as a storage event; a ping is answered by postMessage    *)
(* after the peer has been recorded.                                       *)
(***************************************************************************)
HandleDiscoveryMessage(route, type, deviceId, timestamp) ==
    /\ route = "channel" => ~channelClosed
    /\ IF deviceId = OwnDeviceId
       THEN /\ discoveryLast' = DiscoveryRecord("message", deviceId, FALSE, FALSE, FALSE)
            /\ UNCHANGED discoveredPeers
       ELSE /\ discoveredPeers' = [discoveredPeers EXCEPT ![deviceId] =
                    [known |-> TRUE, lastSeen |-> timestamp, isOnline |-> TRUE]]
            /\ discoveryLast' =
                   DiscoveryRecord("message", deviceId, FALSE, FALSE,
                                   type = "ping" /\ PostMessageThrows(channelClosed))
    /\ UNCHANGED <<isRunning, channelClosed, announceTimers, discoveryNow, discoveryStopped>>

(* ten seconds pass *)
DiscoveryTime ==
    /\ discoveryNow < MaxDiscoveryTime
    /\ discoveryNow' = discoveryNow + 1
    /\ discoveryLast' = DiscoveryRecord("time", "", FALSE, FALSE, FALSE)
    /\ UNCHANGED <<isRunning, channelClosed, announceTimers, discoveredPeers,
                   discoveryStopped>>

DiscoveryStep(A) ==
    A /\ UNCHANGED <<ledgerVars, svcVars, devVars, netVars, splitCall, reentryVars, nftVars,
                     analyticsVars>>

NextDiscovery ==
    \/ DiscoveryStep(StartDiscovery)
    \/ DiscoveryStep(StopDiscovery)
    \/ DiscoveryStep(TimerFires)
    \/ DiscoveryStep(\E r \in MessageRoutes, t \in MessageTypes,
                        d \in PeerDeviceIds \cup {OwnDeviceId}, ts \in 0..discoveryNow :
                          HandleDiscoveryMessage(r, t, d, ts))
    \/ DiscoveryStep(DiscoveryTime)

SpecDiscovery == Init /\ [][NextDiscovery]_vars

(* a peer whose last message is more than 30 seconds old *)
StalePeer(d) ==
    /\ discoveredPeers[d].known
    /\ discoveryNow - discoveredPeers[d].lastSeen > PeerTimeout

(***************************************************************************)
(* C36: a peer is online once a message from it has been handled (also     *)
(* after it was marked offline); after every tick of the cleanup timer of  *)
(* a running discovery server no online peer has a last-seen timestamp     *)
(* older than 30 seconds; and the device never records itself as a         *)
(* discovered peer.                                                        *)
(***************************************************************************)
C36_PeerLiveness ==
    /\ (discoveryLast.op = "message" /\ discoveryLast.deviceId # OwnDeviceId) =>
           /\ discoveredPeers[discoveryLast.deviceId].known
           /\ discoveredPeers[discoveryLast.deviceId].isOnline
    /\ (discoveryLast.op = "timer" /\ isRunning) =>
           \A d \in PeerDeviceIds : StalePeer(d) => ~discoveredPeers[d].isOnline
    /\ ~discoveredPeers[OwnDeviceId].known

(***************************************************************************)
(* C37: at most one announcement timer is active at any time, also after a *)
(* stop followed by a start; startDiscovery while running does nothing;    *)
(* and after stopDiscovery no announcement is broadcast until              *)
(* startDiscovery is called again.                                         *)
(***************************************************************************)
OneTimerQuietWhenStopped ==
    /\ announceTimers <= 1
    /\ discoveryLast.announced => ~discoveryStopped

StartWhileRunningIsNoOp ==
    (discoveryLast'.op = "startDiscovery" /\ isRunning) =>
        /\ ~discoveryLast'.announced
        /\ UNCHANGED <<isRunning, channelClosed, announceTimers, discoveredPeers>>

C37_SingleAnnouncementTimer ==
    []OneTimerQuietWhenStopped /\ [][StartWhileRunningIsNoOp]_vars

(* discovery was started, stopped and started again: still one timer *)
C37_Witness ==
    /\ discoveryLast.op = "startDiscovery"
    /\ channelClosed /\ isRunning
    /\ announceTimers = 1

(* total size of the chunks recorded in fileChunks *)
RECURSIVE StoredChunkBytes(_)
StoredChunkBytes(ids) ==
    IF ids = {} THEN 0
    ELSE LET c == CHOOSE x \in ids : TRUE
         IN  fileChunks[c] + StoredChunkBytes(ids \ {c})

(***************************************************************************)
(* C38: on a contributing device, after any sequence of contributeStorage  *)
(* and storeFileChunk calls, 0 <= availableBytes <= contributedBytes and   *)
(* contributedBytes - availableBytes (getDeviceStats' usedSpace) equals    *)
(* the total size of the chunks recorded as stored on the device.          *)
(***************************************************************************)
C38_UsedSpaceIsStoredBytes ==
    contributions # 0 =>
        LET c == devObjects[contributions] IN
        /\ 0 <= c.availableBytes
        /\ c.availableBytes <= c.contributedBytes
        /\ c.contributedBytes - c.availableBytes = StoredChunkBytes(DOMAIN fileChunks)

(***************************************************************************)
(* The value held by the marketplace: deals at several prices and fees,    *)
(* the owner's fee changes and withdrawals, cancellations, and time.       *)
(***************************************************************************)
NextValue ==
    \/ LedgerStep(\E t \in TimePoints : Tick(t))
    \/ LedgerStep(Register(Prices))
    \/ LedgerStep(OfferDeal)
    \/ LedgerStep(\E s \in RentingUsers, i \in DealIds : CancelDeal(s, i))
    \/ LedgerStep(\E s \in {Owner, "a1"}, f \in Fees : UpdatePlatformFee(s, f))
    \/ LedgerStep(\E s \in {Owner, "a1"} : WithdrawFees(s))

SpecValue == Init /\ [][NextValue]_vars

RECURSIVE SumTransfers(_)
SumTransfers(transfers) ==
    IF transfers = <<>> THEN 0
    ELSE Head(transfers).amount + SumTransfers(Tail(transfers))

(* what a successful call adds to the balance and what it sends out *)
ValueReceived(call) == IF call.op = "createDeal" THEN call.args.value ELSE 0

CreateDealSplitsPayment ==
    last'.op = "createDeal" /\ last'.ok =>
        LET a == last'.args
            totalPrice == TotalPrice(a.amount, providers[a.provider].pricePerByte, a.duration)
            fee == PlatformFeeOf(totalPrice, platformFee)
        IN  /\ a.value = (totalPrice - fee) + (a.value - totalPrice) + fee
            /\ SumTransfers(last'.transfers) = (totalPrice - fee) + (a.value - totalPrice)
            /\ balance' = balance + fee

BalanceFollowsTransfers ==
    IF last'.ok
    THEN /\ balance' = balance + ValueReceived(last') - SumTransfers(last'.transfers)
         /\ SumTransfers(last'.transfers) <= balance + ValueReceived(last')
         /\ \A k \in 1..Len(last'.transfers) : last'.transfers[k].amount >= 0
         /\ last'.transfers # <<>> => last'.op \in {"createDeal", "cancelDeal", "withdrawFees"}
    ELSE balance' = balance

TransfersCovered == balance >= 0 /\ last.err # "TransferFailed"

(***************************************************************************)
(* C39: value is conserved by the marketplace.  A successful createDeal    *)
(* splits the payment into the provider's payment, the renter's refund and *)
(* the retained fee; the balance changes only by the fee retained and by   *)
(* what a withdrawal or a cancellation sends out; it is never negative,    *)
(* and no transfer is attempted for more than the marketplace holds.       *)
(***************************************************************************)
C39_ValueConserved ==
    /\ []TransfersCovered
    /\ [][CreateDealSplitsPayment /\ BalanceFollowsTransfers]_vars

(* the owner withdraws fees retained from a deal that was paid with an excess *)
C39_Witness ==
    /\ last.op = "withdrawFees" /\ last.ok
    /\ SumTransfers(last.transfers) > 0
    /\ balance = 0
    /\ \E i \in DealIds : deals[i].isActive /\ deals[i].pricePerByte > 0

====
